---- MODULE Spec2Model ----
(***************************************************************************)
(* Model of the PDF export path of IPLCforms: the PDFViewer component      *)
(* (src/src/components/PDFViewer.tsx).  A generation builds one HTML       *)
(* fragment per schema page, rasterises the fragments with html2canvas     *)
(* and pages the raster into a letter-size jsPDF document.                 *)
(*                                                                         *)
(* Lengths are CSS px / PDF pt as in the source.  Text is a sequence of    *)
(* characters.  An optional property (fontSize, basePdf) is the empty      *)
(* sequence when absent and a one-element sequence when present.           *)
(***************************************************************************)
EXTENDS Integers, Sequences, FiniteSets, TLC

(***************************************************************************)
(* Bounds of the model.                                                    *)
(***************************************************************************)
MaxStrLen == 3
MaxPages == 3
MaxFields == 2
MaxGenerations == 2

(***************************************************************************)
(* Program constants.                                                      *)
(***************************************************************************)
DefaultFontSize == 12
TextPadding == 2
LineHeightTenths == 12
PageDivHeight == 1056
CanvasScale == 2
CaptureWidth == 612
CaptureHeight == 792
ImgWidth == 612
PdfPageHeight == 792
LetterWidth == 612
LetterHeight == 792

(***************************************************************************)
(* The state of a mounted PDFViewer, PDFViewer.tsx:32-44, and of the       *)
(* generation in flight.                                                   *)
(***************************************************************************)
VARIABLES
    template,           \* prop
    data,               \* prop
    pdfUrl,             \* useState: <<>> for null, else <<blob url id>>
    isGenerating,       \* useState
    error,              \* useState: <<>> for null, else <<message>>
    generatedPdfBytes,  \* useState: <<>> for null, else <<document>>
    pc,                 \* "idle", or the await the generation is suspended at
    genTemplate,        \* template captured by the generatePDF closure
    genData,            \* data captured by the generatePDF closure
    htmlPages,          \* local of the latest generatePDF call: <<>> before
                        \* it is assigned, else <<the page fragments>>
    tempDivAttached,    \* the temporary <div> is in document.body
    canvas,             \* local of the latest generatePDF call: <<>> before
                        \* it is assigned, else <<the html2canvas result>>
    rendered,           \* history: what every composition so far was built
                        \* from and what it produced
    urlCount,           \* blob urls created so far (URL.createObjectURL)
    generations         \* generateAndDisplay calls so far

viewerVars ==
    <<template, data, pdfUrl, isGenerating, error, generatedPdfBytes, pc,
      genTemplate, genData, htmlPages, tempDivAttached, canvas, rendered,
      urlCount, generations>>

(***************************************************************************)
(* The state of a mounted template designer.  The repository holds two     *)
(* implementations of the component: the canvas designer                   *)
(* (src/src/components/PDFTemplateDesigner.tsx), which edits page 0 with   *)
(* the mouse, and the paged designer (src/unnamed/part_000:88-415), which  *)
(* edits the page chosen in its page selector.  Page numbers are 0-based   *)
(* as in the source.                                                       *)
(***************************************************************************)
VARIABLES
    impl,                 \* "canvas" or "paged": the implementation mounted
    designerTemplate,     \* useState template
    selectedField,        \* useState: <<>> for null, else <<field>>
    isDragging,           \* useState (canvas designer)
    dragOffset,           \* useState (canvas designer)
    currentPage,          \* useState (paged designer)
    isGeneratingPreview,  \* useState (paged designer)
    previewPc,            \* "idle", or the await generatePreview is suspended at
    previewDivAttached,   \* the preview's temporary <div> is in document.body
    consoleErrors,        \* console.error calls of generatePreview so far
    now,                  \* Date.now()
    selectedPage,         \* history: the page the selected field was picked on
    lastEdit,             \* history: <<>> or <<the latest updateField/deleteField,
                          \* with the pages before and after it>>
    previewOutcome,       \* history: how the latest generatePreview ended
    designerOps           \* handler calls so far

designerVars ==
    <<impl, designerTemplate, selectedField, isDragging, dragOffset,
      currentPage, isGeneratingPreview, previewPc, previewDivAttached,
      consoleErrors, now, selectedPage, lastEdit, previewOutcome, designerOps>>

(***************************************************************************)
(* The password store of a caller of src/src/lib/password-utils.ts.        *)
(***************************************************************************)
VARIABLES
    pwStored,   \* the hashes hashPassword returned, each with the password
                \* and the salt it was made from
    pwCall      \* history: <<>> or <<the latest comparePassword call and
                \* its outcome>>

passwordVars == <<pwStored, pwCall>>

(***************************************************************************)
(* The server: the D1 database behind src/src/lib/db.ts, the clock, and    *)
(* the latest request with its response.                                   *)
(***************************************************************************)
VARIABLES
    users,        \* table users: rows [id, username, password_hash, is_active]
    sessions,     \* table sessions: rows [id, user_id, user_type, expires_at]
    forms,        \* table forms: rows [id, name, template_data]
    submissions,  \* table form_submissions: rows [id, form_id, data]
    lastId,       \* AUTOINCREMENT: the largest id each table has handed out
    uuids,        \* crypto.randomUUID() calls so far
    clock,        \* the time, in ticks
    lastCall,     \* <<>> while the server is idle, else <<the request it
                  \* has answered, the tables before it, and the response>>
    writes        \* requests so far that changed a table

serverVars ==
    <<users, sessions, forms, submissions, lastId, uuids, clock, lastCall,
      writes>>

(***************************************************************************)
(* A mounted PDFViewer whose generations overlap: the generateAndDisplay   *)
(* calls that have not settled, and the blob urls of the document.         *)
(***************************************************************************)
VARIABLES
    inFlight,      \* the generateAndDisplay calls in flight, each with the
                   \* template, data and pdfUrl its closures captured and the
                   \* await it is suspended at
    blobStore,     \* URL.createObjectURL: url n is blobStore[n], the document
                   \* of the blob and whether the url was revoked
    effectPdfUrl   \* pdfUrl captured by the cleanup of the effect that ran
                   \* last

overlapVars == <<inFlight, blobStore, effectPdfUrl>>

\* What the actions of each part leave alone.
notViewerVars == <<designerVars, passwordVars, serverVars, overlapVars>>
notDesignerVars == <<viewerVars, passwordVars, serverVars, overlapVars>>
notPasswordVars == <<viewerVars, designerVars, serverVars, overlapVars>>
notServerVars == <<viewerVars, designerVars, passwordVars, overlapVars>>
notOverlapVars == <<designerVars, passwordVars, serverVars>>

vars == <<viewerVars, designerVars, passwordVars, serverVars, overlapVars>>

(***************************************************************************)
(* JavaScript values of a data record: Record<string, unknown>.            *)
(***************************************************************************)
NL == "\n"
NBSP == "&nbsp;"
CHECK == "check"

Undefined == [t |-> "undefined", b |-> FALSE, n |-> 0, s |-> <<>>]
Null == [t |-> "null", b |-> FALSE, n |-> 0, s |-> <<>>]
BoolV(v) == [t |-> "boolean", b |-> v, n |-> 0, s |-> <<>>]
NumV(v) == [t |-> "number", b |-> FALSE, n |-> v, s |-> <<>>]
StrV(v) == [t |-> "string", b |-> FALSE, n |-> 0, s |-> v]

\* String(value) of a natural number: its decimal digits.
Digit(d) == <<"0", "1", "2", "3", "4", "5", "6", "7", "8", "9">>[d + 1]

RECURSIVE NumToString(_)
NumToString(n) ==
    IF n < 10 THEN <<Digit(n)>>
    ELSE NumToString(n \div 10) \o <<Digit(n % 10)>>

\* String(value), PDFViewer.tsx:111,123.
String(value) ==
    CASE value.t = "string" -> value.s
      [] value.t = "number" -> NumToString(value.n)
      [] value.t = "boolean" ->
            IF value.b THEN <<"t", "r", "u", "e">> ELSE <<"f", "a", "l", "s", "e">>
      [] value.t = "null" -> <<"n", "u", "l", "l">>
      [] OTHER -> <<"u", "n", "d", "e", "f", "i", "n", "e", "d">>

\* Boolean(value), PDFViewer.tsx:105: JavaScript truthiness.
Boolean(value) ==
    CASE value.t = "boolean" -> value.b
      [] value.t = "number" -> value.n # 0
      [] value.t = "string" -> Len(value.s) > 0
      [] OTHER -> FALSE

\* textValue.split('\n'), PDFViewer.tsx:112: the pieces between line breaks;
\* a text with k line breaks has k + 1 pieces, empty pieces included.
RECURSIVE SplitFrom(_, _, _)
SplitFrom(s, i, cur) ==
    IF i > Len(s) THEN <<cur>>
    ELSE IF s[i] = NL THEN <<cur>> \o SplitFrom(s, i + 1, <<>>)
    ELSE SplitFrom(s, i + 1, Append(cur, s[i]))

Split(s) == SplitFrom(s, 1, <<>>)

Min(a, b) == IF a <= b THEN a ELSE b

(***************************************************************************)
(* FieldSchema and TemplateData, PDFViewer.tsx:5-21.                       *)
(***************************************************************************)
KnownKinds == {"text", "number", "email", "date", "textarea", "checkbox"}

\* field.fontSize || 12: an absent or zero font size falls back to 12.
FontSizeOf(field) ==
    IF field.fontSize = <<>> \/ field.fontSize[1] = 0 THEN DefaultFontSize
    ELSE field.fontSize[1]

\* value === undefined || value === null
Absent(value) == value.t = "undefined" \/ value.t = "null"


\* data[field.name] on a data record rec: a name that is no key of the record reads as undefined.
Lookup(rec, name) == IF name \in DOMAIN rec THEN rec[name] ELSE Undefined

(***************************************************************************)
(* The HTML fragment of one field, PDFViewer.tsx:73-126.  A fragment is a  *)
(* sequence of blocks; a block is the absolutely positioned <div> of one   *)
(* field with the draw primitives inside it, in document order.            *)
(***************************************************************************)
Prim(op, size, text) == [op |-> op, size |-> size, text |-> text]

\* The style string of PDFViewer.tsx:78-89 plus the per-kind additions.
Block(field, kind, padding, prims) ==
    [left |-> field.x, top |-> field.y,
     width |-> field.width, height |-> field.height,
     fontSize |-> FontSizeOf(field), kind |-> kind,
     padding |-> padding, overflow |-> "hidden", prims |-> prims]

\* Mutant of CheckboxHtml: the square is drawn only around a check.
CheckboxHtmlOnlyWhenChecked(field, value) ==
    Block(field, "checkbox", 0,
          IF Boolean(value)
          THEN <<Prim("rect", Min(field.width, field.height), <<>>),
                 Prim("glyph", FontSizeOf(field), <<CHECK>>)>>
          ELSE <<>>)

\* case 'checkbox', PDFViewer.tsx:92-108: the bordered square, then the glyph.
CheckboxHtml(field, value) ==
    Block(field, "checkbox", 0,
          <<Prim("rect", Min(field.width, field.height), <<>>)>>
          \o (IF Boolean(value) THEN <<Prim("glyph", FontSizeOf(field), <<CHECK>>)>>
              ELSE <<>>))

\* lines.map(line => `<div>${line || '&nbsp;'}</div>`), PDFViewer.tsx:115.
LineDivs(lines) ==
    [i \in 1..Len(lines) |->
        Prim("line", 0, IF lines[i] = <<>> THEN <<NBSP>> ELSE lines[i])]

\* case 'textarea', PDFViewer.tsx:110-117.
TextareaHtml(field, value) ==
    Block(field, "textarea", TextPadding, LineDivs(Split(String(value))))

\* default, PDFViewer.tsx:119-125: every other kind is one line of text.
SingleLineHtml(field, value) ==
    Block(field, "line", TextPadding, <<Prim("text", 0, String(value))>>)

\* Mutant of FieldHtml: a missing value draws the field's placeholder, as
\* the design-time views do.
FieldHtmlWithPlaceholder(field, value) ==
    IF Absent(value)
    THEN <<Block(field, "line", TextPadding, <<Prim("text", 0, field.placeholder)>>)>>
    ELSE CASE field.type = "checkbox" -> <<CheckboxHtml(field, value)>>
           [] field.type = "textarea" -> <<TextareaHtml(field, value)>>
           [] OTHER -> <<SingleLineHtml(field, value)>>

\* The callback of pageSchemas.map, PDFViewer.tsx:73-126: '' or one block.
FieldHtml(field, value) ==
    IF Absent(value) THEN <<>>
    ELSE CASE field.type = "checkbox" -> <<CheckboxHtml(field, value)>>
           [] field.type = "textarea" -> <<TextareaHtml(field, value)>>
           [] OTHER -> <<SingleLineHtml(field, value)>>

\* parts.join(''): the concatenation of the parts, in order.
RECURSIVE Join(_)
Join(parts) ==
    IF parts = <<>> THEN <<>> ELSE Head(parts) \o Join(Tail(parts))

\* Mutant of PageHtml: the fields are taken last to first.
PageHtmlReversed(pageSchemas, rec) ==
    Join([k \in 1..Len(pageSchemas) |->
            FieldHtml(pageSchemas[Len(pageSchemas) + 1 - k],
                      Lookup(rec, pageSchemas[Len(pageSchemas) + 1 - k].name))])

\* One page fragment, PDFViewer.tsx:62-130.
PageHtml(pageSchemas, rec) ==
    Join([k \in 1..Len(pageSchemas) |->
            FieldHtml(pageSchemas[k], Lookup(rec, pageSchemas[k].name))])

\* Mutant of HtmlPages: every page carries a stamp of the blob urls created
\* so far, state left behind by earlier generations.
HtmlPagesStamped(tmpl, rec) ==
    [i \in 1..Len(tmpl.schemas) |->
        PageHtml(tmpl.schemas[i], rec)
        \o <<[left |-> 0, top |-> 0, width |-> 0, height |-> 0,
              fontSize |-> DefaultFontSize, kind |-> "line", padding |-> 0,
              overflow |-> "hidden",
              prims |-> <<Prim("text", 0, NumToString(urlCount))>>]>>]

\* template.schemas.map(...), PDFViewer.tsx:61-131.
HtmlPages(tmpl, rec) ==
    [i \in 1..Len(tmpl.schemas) |-> PageHtml(tmpl.schemas[i], rec)]

(***************************************************************************)
(* The temporary <div>, PDFViewer.tsx:133-155: the page <div>s stacked     *)
(* top-down, each 8.5in x 11in (816 x 1056 CSS px), position: relative, so *)
(* a block of page i sits PageDivHeight * i below its own top.             *)
(***************************************************************************)
Layout(pages) ==
    Join([i \in 1..Len(pages) |->
            [k \in 1..Len(pages[i]) |->
                [pages[i][k] EXCEPT !.top = @ + (i - 1) * PageDivHeight]]])

\* html2canvas(tempDiv, {scale: 2, width: 612, height: 792}),
\* PDFViewer.tsx:159-166: the canvas is width*scale x height*scale device
\* pixels and shows the top-left width x height CSS px of the element; a
\* block whose origin lies outside that window is not on the canvas.
InCapture(block) ==
    /\ block.left < CaptureWidth
    /\ block.top < CaptureHeight

Html2Canvas(pages) ==
    [width |-> CaptureWidth * CanvasScale,
     height |-> CaptureHeight * CanvasScale,
     marks |-> SelectSeq(Layout(pages), InCapture)]

(***************************************************************************)
(* The jsPDF paging loop, PDFViewer.tsx:168-197.  Every page of the        *)
(* document carries the whole image shifted up by -position.               *)
(***************************************************************************)
RECURSIVE PagingLoop(_, _, _)
PagingLoop(pages, heightLeft, imgHeight) ==
    IF heightLeft >= 0
    THEN PagingLoop(Append(pages, [position |-> heightLeft - imgHeight]),
                    heightLeft - PdfPageHeight, imgHeight)
    ELSE pages

BuildPdf(cnv) ==
    LET imgHeight == (cnv.height * ImgWidth) \div cnv.width
    IN  [pageWidth |-> LetterWidth, pageHeight |-> LetterHeight,
         image |-> cnv, imgWidth |-> ImgWidth, imgHeight |-> imgHeight,
         pages |-> PagingLoop(<<[position |-> 0]>>,
                              imgHeight - PdfPageHeight, imgHeight)]

\* pdf.addImage(imgData, 'JPEG', 0, position, imgWidth, imgHeight): where a
\* mark of the image lands on output page p, in PDF bottom-left coordinates.
\* A mark is on the page when its origin is inside the page.
PtX(doc, px) == (px * CanvasScale * doc.imgWidth) \div doc.image.width
PtY(doc, px) == (px * CanvasScale * doc.imgHeight) \div doc.image.height

PlacedOn(doc, p) ==
    LET pos == doc.pages[p].position
        marks == doc.image.marks
    IN  { [x |-> PtX(doc, marks[k].left),
           top |-> doc.pageHeight - (pos + PtY(doc, marks[k].top)),
           bottom |-> doc.pageHeight - (pos + PtY(doc, marks[k].top))
                        - PtY(doc, marks[k].height),
           width |-> PtX(doc, marks[k].width),
           height |-> PtY(doc, marks[k].height)] :
          k \in { j \in 1..Len(marks) :
                    /\ pos + PtY(doc, marks[j].top) >= 0
                    /\ pos + PtY(doc, marks[j].top) < doc.pageHeight } }


(***************************************************************************)
(* Inputs of the model: the props of the component.                        *)
(*                                                                         *)
(* SweepInputs: one page with one field, swept over every kind (the six    *)
(* of the FieldSchema union and one that is not among them, which a        *)
(* template parsed from stored JSON can carry), over widths and heights    *)
(* (zero included), font sizes and data values.                            *)
(*                                                                         *)
(* LayoutInputs: up to MaxPages pages holding up to MaxFields fields in    *)
(* all, with and without a base document; the data record fills field "a" *)
(* and has no key for field "b".                                           *)
(***************************************************************************)
Names == {"a", "b"}
UnknownKind == "unknown"
AllKinds == KnownKinds \cup {UnknownKind}
Chars == {"x", NL}
Strings == UNION { [1..n -> Chars] : n \in 0..MaxStrLen }
Values ==
    {Undefined, Null, BoolV(TRUE), BoolV(FALSE), NumV(0), NumV(12)}
    \cup { StrV(s) : s \in Strings }

Widths == {0, 20, 150}
Heights == {0, 24, 30, 40}
FontSizes == {<<>>, <<20>>}
Placeholder == <<"p">>

Field(name, type, x, y, w, h, fs) ==
    [name |-> name, type |-> type, x |-> x, y |-> y, width |-> w, height |-> h,
     fontSize |-> fs, required |-> FALSE, placeholder |-> Placeholder]

Template(schemas, basePdf) == [schemas |-> schemas, basePdf |-> basePdf]

NoData == [n \in {} |-> Undefined]

SweepFields ==
    { Field("a", k, 100, 100, w, h, fs) :
        k \in AllKinds, w \in Widths, h \in Heights, fs \in FontSizes }

SweepInputs ==
    { [template |-> Template(<< <<f>> >>, <<>>), data |-> d] :
        f \in SweepFields, d \in [{"a"} -> Values] \cup {NoData} }

PoolKinds == {"text", "textarea", "checkbox"}
PoolFields ==
    { Field(n, k, 100, 100, 150, 30, <<>>) : n \in Names, k \in PoolKinds }

\* The schema arrays of n pages holding at most k fields in all.
RECURSIVE Schemas(_, _)
Schemas(n, k) ==
    IF n = 0 THEN {<<>>}
    ELSE UNION { { <<p>> \o rest :
                     p \in [1..j -> PoolFields], rest \in Schemas(n - 1, k - j) } :
                 j \in 0..k }

\* A base document is known here by its page count only.
BasePdfs == {<<>>, <<1>>}

LayoutInputs ==
    { [template |-> Template(sch, bp), data |-> [n \in {"a"} |-> StrV(<<"x">>)]] :
        sch \in UNION { Schemas(n, MaxFields) : n \in 0..MaxPages },
        bp \in BasePdfs }

Inputs == SweepInputs \cup LayoutInputs

\* No designer is mounted beside the viewer.
DesignerUnmounted ==
    /\ impl = "none"
    /\ designerTemplate = Template(<<>>, <<>>)
    /\ selectedField = <<>>
    /\ isDragging = FALSE
    /\ dragOffset = [x |-> 0, y |-> 0]
    /\ currentPage = 0
    /\ isGeneratingPreview = FALSE
    /\ previewPc = "idle"
    /\ previewDivAttached = FALSE
    /\ consoleErrors = 0
    /\ now = 0
    /\ selectedPage = 0
    /\ lastEdit = <<>>
    /\ previewOutcome = "none"
    /\ designerOps = 0

\* No password is hashed or compared.
PasswordsUnused ==
    /\ pwStored = {}
    /\ pwCall = <<>>

\* No server runs.
ServerDown ==
    /\ users = {}
    /\ sessions = {}
    /\ forms = {}
    /\ submissions = {}
    /\ lastId = [users |-> 0, forms |-> 0, submissions |-> 0]
    /\ uuids = 0
    /\ clock = 0
    /\ lastCall = <<>>
    /\ writes = 0

\* No generation is in flight and no blob url exists.
NoOverlap ==
    /\ inFlight = {}
    /\ blobStore = <<>>
    /\ effectPdfUrl = <<>>

Init ==
    /\ PasswordsUnused
    /\ ServerDown
    /\ NoOverlap
    /\ \E inp \in Inputs :
         /\ template = inp.template
         /\ data = inp.data
         /\ genTemplate = inp.template
         /\ genData = inp.data
    /\ pdfUrl = <<>>
    /\ isGenerating = FALSE
    /\ error = <<>>
    /\ generatedPdfBytes = <<>>
    /\ pc = "idle"
    /\ htmlPages = <<>>
    /\ tempDivAttached = FALSE
    /\ canvas = <<>>
    /\ rendered = {}
    /\ urlCount = 0
    /\ generations = 0
    /\ DesignerUnmounted

\* generateAndDisplay, PDFViewer.tsx:211-216, entered from the mount effect
\* (239-248) or from Refresh / Try Again (267-269), and generatePDF up to
\* its first await (47-58).  Both buttons are rendered only while no
\* generation is running (288-321).
StartGenerate ==
    /\ pc = "idle"
    /\ generations < MaxGenerations
    /\ isGenerating' = TRUE
    /\ error' = <<>>
    /\ genTemplate' = template
    /\ genData' = data
    /\ htmlPages' = <<>>
    /\ canvas' = <<>>
    /\ pc' = "import"
    /\ generations' = generations + 1
    /\ UNCHANGED <<template, data, pdfUrl, generatedPdfBytes, tempDivAttached,
                   rendered, urlCount>>
    /\ UNCHANGED notViewerVars

\* The dynamic imports resolve: the fragments are built and the temporary
\* <div> is attached, up to await html2canvas (PDFViewer.tsx:60-159).
ImportResolved ==
    /\ pc = "import"
    /\ htmlPages' = <<HtmlPages(genTemplate, genData)>>
    /\ rendered' = rendered \cup {[template |-> genTemplate, data |-> genData,
                                    pages |-> htmlPages'[1]]}
    /\ tempDivAttached' = TRUE
    /\ pc' = "html2canvas"
    /\ UNCHANGED <<template, data, pdfUrl, isGenerating, error,
                   generatedPdfBytes, genTemplate, genData, canvas, urlCount,
                   generations>>
    /\ UNCHANGED notViewerVars

\* catch of generatePDF rethrows (204-207), catch and finally of
\* generateAndDisplay (230-235).
Fail(message) ==
    /\ error' = <<message>>
    /\ isGenerating' = FALSE
    /\ pc' = "idle"

\* A dynamic import rejects.
ImportRejected ==
    /\ pc = "import"
    /\ Fail("Failed to generate PDF: import")
    /\ UNCHANGED <<template, data, pdfUrl, generatedPdfBytes, genTemplate,
                   genData, htmlPages, tempDivAttached, canvas, rendered,
                   urlCount, generations>>
    /\ UNCHANGED notViewerVars

\* html2canvas resolves: the document is paged, the temporary <div> removed
\* (168-202), and generateAndDisplay publishes the result (217-229, 234).
CanvasResolved ==
    /\ pc = "html2canvas"
    /\ canvas' = <<Html2Canvas(htmlPages[1])>>
    /\ tempDivAttached' = FALSE
    /\ generatedPdfBytes' = <<BuildPdf(canvas'[1])>>
    /\ urlCount' = urlCount + 1
    /\ pdfUrl' = <<urlCount'>>
    /\ isGenerating' = FALSE
    /\ pc' = "idle"
    /\ UNCHANGED <<template, data, error, genTemplate, genData, htmlPages,
                   rendered, generations>>
    /\ UNCHANGED notViewerVars

\* html2canvas rejects: the finally of 199-202 removes the temporary <div>.
CanvasRejected ==
    /\ pc = "html2canvas"
    /\ tempDivAttached' = FALSE
    /\ Fail("Failed to generate PDF: html2canvas")
    /\ UNCHANGED <<template, data, pdfUrl, generatedPdfBytes, genTemplate,
                   genData, htmlPages, canvas, rendered, urlCount, generations>>
    /\ UNCHANGED notViewerVars

Next ==
    \/ StartGenerate
    \/ ImportResolved
    \/ ImportRejected
    \/ CanvasResolved
    \/ CanvasRejected

Spec == Init /\ [][Next]_vars

(***************************************************************************)
(* The viewer with generations that overlap.  The parent may pass a new    *)
(* template or data at any time, and the effect of PDFViewer.tsx:239-248   *)
(* then starts a generation whatever is in flight; Try Again is rendered   *)
(* while error is set and Refresh while neither error nor isGenerating is  *)
(* (288-321), and isGenerating is cleared by whichever generation settles  *)
(* first.  A generation keeps the template, data and pdfUrl of the render  *)
(* its closures were made in.                                              *)
(***************************************************************************)
MaxOverlapGenerations == 3

\* generatePDF, PDFViewer.tsx:47-208, of a generation that succeeds.
Document(tmpl, rec) == BuildPdf(Html2Canvas(HtmlPages(tmpl, rec)))

\* The props the parent passes: two templates and two data records.
OverlapInputs ==
    { [template |-> Template(<< <<Field("a", k, 100, 100, 150, 30, <<>>)>> >>, <<>>),
       data |-> [n \in {"a"} |-> StrV(s)]] :
        k \in {"text", "checkbox"}, s \in {<<"x">>, <<"x", "x">>} }

OverlapInit ==
    /\ DesignerUnmounted
    /\ PasswordsUnused
    /\ ServerDown
    /\ \E inp \in OverlapInputs :
         /\ template = inp.template
         /\ data = inp.data
         /\ genTemplate = inp.template
         /\ genData = inp.data
    /\ pdfUrl = <<>>
    /\ isGenerating = FALSE
    /\ error = <<>>
    /\ generatedPdfBytes = <<>>
    /\ pc = "idle"
    /\ htmlPages = <<>>
    /\ tempDivAttached = FALSE
    /\ canvas = <<>>
    /\ rendered = {}
    /\ urlCount = 0
    /\ generations = 0
    /\ NoOverlap

\* URL.revokeObjectURL(url) behind `if (url)`.
Revoked(store, url) ==
    IF url = <<>> THEN store
    ELSE [store EXCEPT ![url[1]] = [@ EXCEPT !.revoked = TRUE]]

\* generateAndDisplay of the current render up to the first await of
\* generatePDF, PDFViewer.tsx:211-216 and 47-58.
Launched(tmpl, rec) ==
    /\ generations < MaxOverlapGenerations
    /\ generations' = generations + 1
    /\ isGenerating' = TRUE
    /\ error' = <<>>
    /\ inFlight' = inFlight \cup
         {[gen |-> generations + 1, template |-> tmpl, data |-> rec,
           pdfUrl |-> pdfUrl, pc |-> "import"]}
    /\ UNCHANGED <<pdfUrl, generatedPdfBytes, urlCount>>
    /\ UNCHANGED <<pc, genTemplate, genData, htmlPages, tempDivAttached, canvas,
                   rendered>>
    /\ UNCHANGED notOverlapVars

\* The effect on mount, PDFViewer.tsx:239-248.
OverlapMounted ==
    /\ generations = 0
    /\ effectPdfUrl' = pdfUrl
    /\ Launched(template, data)
    /\ UNCHANGED <<template, data, blobStore>>

\* The parent passes another template or data: the cleanup of the effect
\* that ran last revokes the pdfUrl it captured, and the effect runs again
\* (PDFViewer.tsx:239-248).
PropsChanged(inp) ==
    /\ generations > 0
    /\ <<inp.template, inp.data>> # <<template, data>>
    /\ template' = inp.template
    /\ data' = inp.data
    /\ blobStore' = Revoked(blobStore, effectPdfUrl)
    /\ effectPdfUrl' = pdfUrl
    /\ Launched(inp.template, inp.data)

\* handleRegeneratePDF, PDFViewer.tsx:267-269, from Try Again (288-308) or
\* Refresh (310-321).
RegeneratePressed ==
    /\ generations > 0
    /\ error # <<>> \/ ~isGenerating
    /\ Launched(template, data)
    /\ UNCHANGED <<template, data, blobStore, effectPdfUrl>>

\* The dynamic imports of a generation resolve; it goes on to
\* await html2canvas (PDFViewer.tsx:49-159).
OverlapImportResolved(g) ==
    /\ g.pc = "import"
    /\ inFlight' = (inFlight \ {g}) \cup {[g EXCEPT !.pc = "html2canvas"]}
    /\ UNCHANGED <<template, data, pdfUrl, isGenerating, error,
                   generatedPdfBytes, urlCount, generations, blobStore,
                   effectPdfUrl>>
    /\ UNCHANGED <<pc, genTemplate, genData, htmlPages, tempDivAttached, canvas,
                   rendered>>
    /\ UNCHANGED notOverlapVars

\* An await of a generation rejects: catch and finally of
\* generateAndDisplay (PDFViewer.tsx:230-235).
OverlapRejected(g) ==
    /\ error' = <<"Failed to generate PDF">>
    /\ isGenerating' = FALSE
    /\ inFlight' = inFlight \ {g}
    /\ UNCHANGED <<template, data, pdfUrl, generatedPdfBytes, urlCount,
                   generations, blobStore, effectPdfUrl>>
    /\ UNCHANGED <<pc, genTemplate, genData, htmlPages, tempDivAttached, canvas,
                   rendered>>
    /\ UNCHANGED notOverlapVars

\* html2canvas of a generation resolves and generateAndDisplay publishes
\* the document (PDFViewer.tsx:168-198 and 217-229, 234).
OverlapCanvasResolved(g) ==
    /\ g.pc = "html2canvas"
    /\ generatedPdfBytes' = <<Document(g.template, g.data)>>
    /\ blobStore' = Append(Revoked(blobStore, g.pdfUrl),
                           [doc |-> Document(g.template, g.data),
                            revoked |-> FALSE])
    /\ urlCount' = urlCount + 1
    /\ pdfUrl' = <<Len(blobStore')>>
    /\ isGenerating' = FALSE
    /\ inFlight' = inFlight \ {g}
    /\ UNCHANGED <<template, data, error, generations, effectPdfUrl>>
    /\ UNCHANGED <<pc, genTemplate, genData, htmlPages, tempDivAttached, canvas,
                   rendered>>
    /\ UNCHANGED notOverlapVars

OverlapNext ==
    \/ OverlapMounted
    \/ \E inp \in OverlapInputs : PropsChanged(inp)
    \/ RegeneratePressed
    \/ \E g \in inFlight : OverlapImportResolved(g)
    \/ \E g \in inFlight : OverlapRejected(g)
    \/ \E g \in inFlight : OverlapCanvasResolved(g)

OverlapSpec == OverlapInit /\ [][OverlapNext]_vars

(***************************************************************************)
(* The template designers.  Field names are texts here: addField names a   *)
(* field `field_${Date.now()}`.                                            *)
(***************************************************************************)
MaxDesignerOps == 4
MaxClock == 1

Max(a, b) == IF a >= b THEN a ELSE b

\* Number(e.target.value) of an <input type="number">, whose value is '' or
\* a decimal numeral with an optional sign: Number('') is 0.
DigitValue(c) == CHOOSE d \in 0..9 : Digit(d) = c

RECURSIVE DigitsToNat(_)
DigitsToNat(s) ==
    IF s = <<>> THEN 0
    ELSE DigitsToNat(SubSeq(s, 1, Len(s) - 1)) * 10 + DigitValue(s[Len(s)])

Number(text) ==
    IF text = <<>> THEN 0
    ELSE IF text[1] = "-" THEN 0 - DigitsToNat(Tail(text))
    ELSE DigitsToNat(text)

\* `field_${Date.now()}`
FieldName(t) == <<"f", "i", "e", "l", "d", "_">> \o NumToString(t)

\* newField of addField, PDFTemplateDesigner.tsx:90-100, part_000:138-148.
NewField(type, t) ==
    [name |-> FieldName(t), type |-> type, x |-> 100, y |-> 100,
     width |-> IF type = "checkbox" THEN 20 ELSE 150,
     height |-> IF type = "textarea" THEN 80
                ELSE IF type = "checkbox" THEN 20 ELSE 30,
     fontSize |-> <<12>>, required |-> FALSE,
     placeholder |-> <<"Enter ", type>>]

\* The setTemplate updater of the canvas designer's addField: the field
\* goes to page 0, which is created when the template has no page.
CanvasAddField(schemas, newField) ==
    LET newSchemas == IF Len(schemas) = 0 THEN << <<>> >> ELSE schemas
    IN  [newSchemas EXCEPT ![1] = Append(@, newField)]

\* The same of the paged designer: pages are added up to the current page.
PagedAddField(schemas, page, newField) ==
    LET newSchemas == schemas \o [i \in 1..(page + 1 - Len(schemas)) |-> <<>>]
    IN  [newSchemas EXCEPT ![page + 1] = Append(@, newField)]

\* updateField of the canvas designer: every field of every page that has
\* the name of updatedField is replaced by it.
CanvasUpdateField(schemas, updatedField) ==
    [i \in 1..Len(schemas) |->
        [k \in 1..Len(schemas[i]) |->
            IF schemas[i][k].name = updatedField.name THEN updatedField
            ELSE schemas[i][k]]]

\* newSchemas[currentPage] || []
PageFields(schemas, page) ==
    IF page + 1 \in 1..Len(schemas) THEN schemas[page + 1] ELSE <<>>

\* pageFields.findIndex(f => f.name === name): 0-based, -1 when none.
FindIndex(fields, name) ==
    LET hits == { k \in 1..Len(fields) : fields[k].name = name }
    IN  IF hits = {} THEN 0 - 1
        ELSE (CHOOSE k \in hits : \A j \in hits : k <= j) - 1

\* updateField of the paged designer: the first field of the current page
\* that has the name of updatedField is replaced by it.
PagedUpdateField(schemas, page, updatedField) ==
    LET pageFields == PageFields(schemas, page)
        fieldIndex == FindIndex(pageFields, updatedField.name)
    IN  IF fieldIndex >= 0
        THEN [schemas EXCEPT ![page + 1] =
                SubSeq(pageFields, 1, fieldIndex) \o <<updatedField>>
                \o SubSeq(pageFields, fieldIndex + 2, Len(pageFields))]
        ELSE schemas

\* deleteField of the canvas designer: the name is filtered out of every page.
CanvasDeleteField(schemas, fieldName) ==
    [i \in 1..Len(schemas) |->
        SelectSeq(schemas[i], LAMBDA f : f.name # fieldName)]

\* deleteField of the paged designer: the name is filtered out of the
\* current page.
PagedDeleteField(schemas, page, fieldName) ==
    LET newSchemas == schemas \o [i \in 1..(page + 1 - Len(schemas)) |-> <<>>]
    IN  [newSchemas EXCEPT ![page + 1] =
            SelectSeq(@, LAMBDA f : f.name # fieldName)]

\* (event.clientX - rect.left) * 2, (event.clientY - rect.top) * 2
CanvasPoint(pt) == [x |-> pt[1] * 2, y |-> pt[2] * 2]

\* template.schemas[0]?.find(field => the point is inside the field)
ClickedField(schemas, p) ==
    LET fields == PageFields(schemas, 0)
        hits == { k \in 1..Len(fields) :
                    /\ p.x >= fields[k].x /\ p.x <= fields[k].x + fields[k].width
                    /\ p.y >= fields[k].y /\ p.y <= fields[k].y + fields[k].height }
    IN  IF hits = {} THEN <<>>
        ELSE <<fields[CHOOSE k \in hits : \A j \in hits : k <= j]>>

\* What the designer renders of a preview: the button's label and whether
\* it is disabled (part_000:305-311).  Neither implementation has an error
\* state, an error element or a retry control in its JSX.
DesignerView ==
    [previewButton |-> IF isGeneratingPreview THEN "Generating..."
                       ELSE "Preview PDF",
     previewDisabled |-> isGeneratingPreview
                         \/ PageFields(designerTemplate.schemas, currentPage) = <<>>,
     errorMessage |-> <<>>,
     retry |-> FALSE]

\* What the viewer renders, PDFViewer.tsx:288-321: the failure panel with
\* the message and Try Again, else the spinner, else the preview.
ViewerView ==
    [screen |-> IF error # <<>> THEN "failed"
                ELSE IF isGenerating THEN "generating" ELSE "preview",
     errorMessage |-> error,
     retry |-> error # <<>>]

(***************************************************************************)
(* Inputs of the designers: the initialTemplate prop (absent, or a stored  *)
(* template; field names may repeat across pages), the points the mouse    *)
(* visits on the canvas, and the texts typed into the property inputs.     *)
(***************************************************************************)
FieldA == Field(<<"a">>, "text", 100, 100, 150, 30, <<12>>)
FieldACheckbox == Field(<<"a">>, "checkbox", 300, 100, 20, 20, <<12>>)
FieldB == Field(<<"b">>, "textarea", 100, 300, 150, 80, <<12>>)

DefaultTemplate == Template(<< <<>> >>, <<>>)

InitialTemplates ==
    {DefaultTemplate,
     Template(<< <<FieldA>>, <<FieldACheckbox>> >>, <<>>),
     Template(<< <<FieldA, FieldB>>, <<FieldB>> >>, <<>>)}

MousePoints == {<<0, 0>>, <<50, 50>>, <<100, 60>>}
NumberTexts == {<<>>, <<"0">>, <<"-", "5">>, <<"4", "0">>}
TypedNames == {<<"a">>, <<"b">>}
NumberProps == {"x", "y", "width", "height"}

\* No viewer is mounted beside the designer.
ViewerUnmounted ==
    /\ template = Template(<<>>, <<>>)
    /\ data = NoData
    /\ genTemplate = Template(<<>>, <<>>)
    /\ genData = NoData
    /\ pdfUrl = <<>>
    /\ isGenerating = FALSE
    /\ error = <<>>
    /\ generatedPdfBytes = <<>>
    /\ pc = "idle"
    /\ htmlPages = <<>>
    /\ tempDivAttached = FALSE
    /\ canvas = <<>>
    /\ rendered = {}
    /\ urlCount = 0
    /\ generations = 0
    /\ NoOverlap

\* useState initial values, PDFTemplateDesigner.tsx:33-39, part_000:120-125.
DesignerInit ==
    /\ ViewerUnmounted
    /\ PasswordsUnused
    /\ ServerDown
    /\ impl \in {"canvas", "paged"}
    /\ designerTemplate \in InitialTemplates
    /\ selectedField = <<>>
    /\ isDragging = FALSE
    /\ dragOffset = [x |-> 0, y |-> 0]
    /\ currentPage = 0
    /\ isGeneratingPreview = FALSE
    /\ previewPc = "idle"
    /\ previewDivAttached = FALSE
    /\ consoleErrors = 0
    /\ now = 0
    /\ selectedPage = 0
    /\ lastEdit = <<>>
    /\ previewOutcome = "none"
    /\ designerOps = 0

\* One more handler call.
Handled ==
    /\ designerOps < MaxDesignerOps
    /\ designerOps' = designerOps + 1

\* Time passes.
Tick ==
    /\ now < MaxClock
    /\ now' = now + 1
    /\ UNCHANGED <<impl, designerTemplate, selectedField, isDragging,
                   dragOffset, currentPage, isGeneratingPreview, previewPc,
                   previewDivAttached, consoleErrors, selectedPage, lastEdit,
                   previewOutcome, designerOps>>
    /\ UNCHANGED notDesignerVars

\* addField, PDFTemplateDesigner.tsx:89-111 and part_000:137-164.
AddField(type) ==
    /\ Handled
    /\ designerTemplate' =
         [designerTemplate EXCEPT !.schemas =
            IF impl = "canvas" THEN CanvasAddField(@, NewField(type, now))
            ELSE PagedAddField(@, currentPage, NewField(type, now))]
    /\ UNCHANGED <<impl, selectedField, isDragging, dragOffset, currentPage,
                   isGeneratingPreview, previewPc, previewDivAttached,
                   consoleErrors, now, selectedPage, lastEdit, previewOutcome>>
    /\ UNCHANGED notDesignerVars

\* updateField, PDFTemplateDesigner.tsx:113-126 and part_000:166-185, as
\* called by the handlers below.
UpdateField(updatedField) ==
    /\ designerTemplate' =
         [designerTemplate EXCEPT !.schemas =
            IF impl = "canvas" THEN CanvasUpdateField(@, updatedField)
            ELSE PagedUpdateField(@, currentPage, updatedField)]
    /\ selectedField' = <<updatedField>>
    /\ lastEdit' = <<[op |-> "updateField", page |-> selectedPage,
                      current |-> currentPage,
                      name |-> updatedField.name,
                      before |-> designerTemplate.schemas,
                      after |-> designerTemplate'.schemas]>>

\* handleCanvasClick, PDFTemplateDesigner.tsx:141-156.
HandleCanvasClick(pt) ==
    /\ impl = "canvas"
    /\ Handled
    /\ selectedField' = ClickedField(designerTemplate.schemas, CanvasPoint(pt))
    /\ selectedPage' = 0
    /\ UNCHANGED <<impl, designerTemplate, isDragging, dragOffset, currentPage,
                   isGeneratingPreview, previewPc, previewDivAttached,
                   consoleErrors, now, lastEdit, previewOutcome>>
    /\ UNCHANGED notDesignerVars

\* handleMouseDown, PDFTemplateDesigner.tsx:158-171.
HandleMouseDown(pt) ==
    /\ impl = "canvas"
    /\ selectedField # <<>>
    /\ Handled
    /\ isDragging' = TRUE
    /\ dragOffset' = [x |-> CanvasPoint(pt).x - selectedField[1].x,
                      y |-> CanvasPoint(pt).y - selectedField[1].y]
    /\ UNCHANGED <<impl, designerTemplate, selectedField, currentPage,
                   isGeneratingPreview, previewPc, previewDivAttached,
                   consoleErrors, now, selectedPage, lastEdit, previewOutcome>>
    /\ UNCHANGED notDesignerVars

\* handleMouseMove, PDFTemplateDesigner.tsx:173-188.
HandleMouseMove(pt) ==
    /\ impl = "canvas"
    /\ isDragging
    /\ selectedField # <<>>
    /\ Handled
    /\ UpdateField([selectedField[1] EXCEPT
                      !.x = Max(0, CanvasPoint(pt).x - dragOffset.x),
                      !.y = Max(0, CanvasPoint(pt).y - dragOffset.y)])
    /\ UNCHANGED <<impl, isDragging, dragOffset, currentPage,
                   isGeneratingPreview, previewPc, previewDivAttached,
                   consoleErrors, now, selectedPage, previewOutcome>>
    /\ UNCHANGED notDesignerVars

\* handleMouseUp, PDFTemplateDesigner.tsx:190-193.
HandleMouseUp ==
    /\ impl = "canvas"
    /\ Handled
    /\ isDragging' = FALSE
    /\ dragOffset' = [x |-> 0, y |-> 0]
    /\ UNCHANGED <<impl, designerTemplate, selectedField, currentPage,
                   isGeneratingPreview, previewPc, previewDivAttached,
                   consoleErrors, now, selectedPage, lastEdit, previewOutcome>>
    /\ UNCHANGED notDesignerVars

\* onClick of the k-th field of the current page, part_000:379-382.
SelectField(k) ==
    /\ impl = "paged"
    /\ k \in 1..Len(PageFields(designerTemplate.schemas, currentPage))
    /\ Handled
    /\ selectedField' = <<PageFields(designerTemplate.schemas, currentPage)[k]>>
    /\ selectedPage' = currentPage
    /\ UNCHANGED <<impl, designerTemplate, isDragging, dragOffset, currentPage,
                   isGeneratingPreview, previewPc, previewDivAttached,
                   consoleErrors, now, lastEdit, previewOutcome>>
    /\ UNCHANGED notDesignerVars

\* onChange of the page selector, part_000:288-296.
SetCurrentPage(page) ==
    /\ impl = "paged"
    /\ page \in 0..(Len(designerTemplate.schemas) - 1)
    /\ Handled
    /\ currentPage' = page
    /\ UNCHANGED <<impl, designerTemplate, selectedField, isDragging,
                   dragOffset, isGeneratingPreview, previewPc,
                   previewDivAttached, consoleErrors, now, selectedPage,
                   lastEdit, previewOutcome>>
    /\ UNCHANGED notDesignerVars

\* addPage, part_000:199-206.
AddPage ==
    /\ impl = "paged"
    /\ Handled
    /\ designerTemplate' = [designerTemplate EXCEPT !.schemas = Append(@, <<>>)]
    /\ currentPage' = Len(designerTemplate.schemas)
    /\ UNCHANGED <<impl, selectedField, isDragging, dragOffset,
                   isGeneratingPreview, previewPc, previewDivAttached,
                   consoleErrors, now, selectedPage, lastEdit, previewOutcome>>
    /\ UNCHANGED notDesignerVars

\* onChange of a numeric property input: Width and Height in both
\* designers (PDFTemplateDesigner.tsx:313-329, part_000:340-353), X and Y
\* in the paged one (part_000:326-339).
EditNumber(prop, text) ==
    /\ impl \in {"canvas", "paged"}
    /\ selectedField # <<>>
    /\ prop \in {"x", "y"} => impl = "paged"
    /\ Handled
    /\ UpdateField(
         CASE prop = "x" -> [selectedField[1] EXCEPT !.x = Number(text)]
           [] prop = "y" -> [selectedField[1] EXCEPT !.y = Number(text)]
           [] prop = "width" -> [selectedField[1] EXCEPT !.width = Number(text)]
           [] OTHER -> [selectedField[1] EXCEPT !.height = Number(text)])
    /\ UNCHANGED <<impl, isDragging, dragOffset, currentPage,
                   isGeneratingPreview, previewPc, previewDivAttached,
                   consoleErrors, now, selectedPage, previewOutcome>>
    /\ UNCHANGED notDesignerVars

\* onChange of the name input, PDFTemplateDesigner.tsx:288-293,
\* part_000:319-325.
EditName(text) ==
    /\ impl \in {"canvas", "paged"}
    /\ selectedField # <<>>
    /\ Handled
    /\ UpdateField([selectedField[1] EXCEPT !.name = text])
    /\ UNCHANGED <<impl, isDragging, dragOffset, currentPage,
                   isGeneratingPreview, previewPc, previewDivAttached,
                   consoleErrors, now, selectedPage, previewOutcome>>
    /\ UNCHANGED notDesignerVars

\* Delete Field: deleteField(selectedField.name),
\* PDFTemplateDesigner.tsx:128-139,345-350 and part_000:187-197,354-359.
DeleteField ==
    /\ impl \in {"canvas", "paged"}
    /\ selectedField # <<>>
    /\ Handled
    /\ designerTemplate' =
         [designerTemplate EXCEPT !.schemas =
            IF impl = "canvas" THEN CanvasDeleteField(@, selectedField[1].name)
            ELSE PagedDeleteField(@, currentPage, selectedField[1].name)]
    /\ selectedField' = <<>>
    /\ lastEdit' = <<[op |-> "deleteField", page |-> selectedPage,
                      current |-> currentPage,
                      name |-> selectedField[1].name,
                      before |-> designerTemplate.schemas,
                      after |-> designerTemplate'.schemas]>>
    /\ UNCHANGED <<impl, isDragging, dragOffset, currentPage,
                   isGeneratingPreview, previewPc, previewDivAttached,
                   consoleErrors, now, selectedPage, previewOutcome>>
    /\ UNCHANGED notDesignerVars

\* Preview PDF: generatePreview up to await html2pdf()...save(),
\* part_000:208-253.  The button is disabled while a preview is generated
\* or the current page has no field (part_000:305-308).
GeneratePreview ==
    /\ impl = "paged"
    /\ ~DesignerView.previewDisabled
    /\ Len(designerTemplate.schemas) # 0
    /\ Handled
    /\ isGeneratingPreview' = TRUE
    /\ previewDivAttached' = TRUE
    /\ previewPc' = "html2pdf"
    /\ UNCHANGED <<impl, designerTemplate, selectedField, isDragging,
                   dragOffset, currentPage, consoleErrors, now, selectedPage,
                   lastEdit, previewOutcome>>
    /\ UNCHANGED notDesignerVars

\* html2pdf resolves: the temporary <div> is removed, part_000:255-261.
PreviewSaved ==
    /\ previewPc = "html2pdf"
    /\ previewDivAttached' = FALSE
    /\ isGeneratingPreview' = FALSE
    /\ previewPc' = "idle"
    /\ previewOutcome' = "saved"
    /\ UNCHANGED <<impl, designerTemplate, selectedField, isDragging,
                   dragOffset, currentPage, consoleErrors, now, selectedPage,
                   lastEdit, designerOps>>
    /\ UNCHANGED notDesignerVars

\* html2pdf rejects: the catch logs to the console and the finally resets
\* the flag, part_000:257-261; the temporary <div> stays in the document.
PreviewRejected ==
    /\ previewPc = "html2pdf"
    /\ consoleErrors' = consoleErrors + 1
    /\ isGeneratingPreview' = FALSE
    /\ previewPc' = "idle"
    /\ previewOutcome' = "threw"
    /\ UNCHANGED <<impl, designerTemplate, selectedField, isDragging,
                   dragOffset, currentPage, previewDivAttached, now,
                   selectedPage, lastEdit, designerOps>>
    /\ UNCHANGED notDesignerVars

DesignerNext ==
    \/ Tick
    \/ \E type \in PoolKinds : AddField(type)
    \/ \E pt \in MousePoints : HandleCanvasClick(pt)
    \/ \E pt \in MousePoints : HandleMouseDown(pt)
    \/ \E pt \in MousePoints : HandleMouseMove(pt)
    \/ HandleMouseUp
    \/ \E k \in 1..MaxDesignerOps + 2 : SelectField(k)
    \/ \E page \in 0..MaxDesignerOps + 1 : SetCurrentPage(page)
    \/ AddPage
    \/ \E prop \in NumberProps : \E text \in NumberTexts : EditNumber(prop, text)
    \/ \E text \in TypedNames : EditName(text)
    \/ DeleteField
    \/ GeneratePreview
    \/ PreviewSaved
    \/ PreviewRejected

DesignerSpec == DesignerInit /\ [][DesignerNext]_vars



(***************************************************************************)
(* Password hashing, src/src/lib/password-utils.ts.  A text is a sequence  *)
(* of characters, a buffer a sequence of bytes.                            *)
(***************************************************************************)
MaxHashes == 1

SaltBytes == 16
DerivedBytes == 32
BcryptHashLength == 60

HexDigits ==
    <<"0", "1", "2", "3", "4", "5", "6", "7", "8", "9",
      "a", "b", "c", "d", "e", "f">>
UpperHexDigits == <<"A", "B", "C", "D", "E", "F">>

\* value.toString(16).padStart(2, '0') of a byte
ByteToHex(value) ==
    <<HexDigits[(value \div 16) + 1], HexDigits[(value % 16) + 1]>>

\* arrayBufferToHex, password-utils.ts:8-16.
ArrayBufferToHex(buffer) == Join([i \in 1..Len(buffer) |-> ByteToHex(buffer[i])])

\* The value of a hexadecimal digit as parseInt(..., 16) reads it, -1 for
\* any other character.
HexValue(c) ==
    IF \E d \in 1..16 : HexDigits[d] = c
    THEN (CHOOSE d \in 1..16 : HexDigits[d] = c) - 1
    ELSE IF \E d \in 1..6 : UpperHexDigits[d] = c
    THEN (CHOOSE d \in 1..6 : UpperHexDigits[d] = c) + 9
    ELSE 0 - 1

\* bytes[i / 2] = parseInt(hex.substr(i, 2), 16): parseInt reads the
\* leading hexadecimal digits; NaN is stored in a Uint8Array as 0.
ParsedByte(pair) ==
    IF HexValue(pair[1]) < 0 THEN 0
    ELSE IF Len(pair) = 2 /\ HexValue(pair[2]) >= 0
    THEN HexValue(pair[1]) * 16 + HexValue(pair[2])
    ELSE HexValue(pair[1])

\* hexToArrayBuffer, password-utils.ts:19-25.  new Uint8Array(n) throws a
\* RangeError when n = hex.length / 2 is no integer.
HexToArrayBufferThrows(hex) == Len(hex) % 2 = 1

HexToArrayBuffer(hex) ==
    [i \in 1..(Len(hex) \div 2) |-> ParsedByte(SubSeq(hex, 2 * i - 1, 2 * i))]

\* encoder.encode(password): the UTF-8 bytes of the text.  TextEncoder
\* replaces a lone surrogate, here the characters "uD800" and "uD801", by
\* U+FFFD.
Utf8(c) ==
    CASE c = "p" -> <<112>>
      [] c = "q" -> <<113>>
      [] c \in {"uD800", "uD801"} -> <<239, 191, 189>>

Encode(password) == Join([i \in 1..Len(password) |-> Utf8(password[i])])

\* crypto.subtle.deriveBits(PBKDF2, salt, 100000, SHA-256, 256 bits): a
\* function of the password bytes and the salt, here one without
\* collisions on the inputs of the model: the length of the password, its
\* bytes, the length of the salt and its bytes, cut or zero-padded to 32
\* bytes.
DeriveBits(keyMaterial, salt) ==
    LET all == <<Len(keyMaterial)>> \o keyMaterial \o <<Len(salt)>> \o salt
    IN  [i \in 1..DerivedBytes |-> IF i <= Len(all) THEN all[i] ELSE 0]

\* hashPassword, password-utils.ts:32-64, for the salt getRandomValues drew.
HashPassword(password, salt) ==
    ArrayBufferToHex(salt) \o <<":">>
    \o ArrayBufferToHex(DeriveBits(Encode(password), salt))

\* hashedPassword.split(':'): the pieces between the colons, in order.
ColonPositions(s) == {i \in 1..Len(s) : s[i] = ":"}

NthColon(s, k) ==
    CHOOSE i \in ColonPositions(s) :
        Cardinality({j \in ColonPositions(s) : j < i}) = k - 1

SplitOnColon(s) ==
    LET n == Cardinality(ColonPositions(s))
    IN  [k \in 1..(n + 1) |->
            SubSeq(s,
                   IF k = 1 THEN 1 ELSE NthColon(s, k - 1) + 1,
                   IF k = n + 1 THEN Len(s) ELSE NthColon(s, k) - 1)]

\* timingSafeEqual, password-utils.ts:174-185.
TimingSafeEqual(a, b) ==
    IF Len(a) # Len(b) THEN FALSE
    ELSE \A i \in 1..Len(a) : a[i] = b[i]

\* How a call ends: it returns a value or throws.
Returned(value) == [threw |-> FALSE, value |-> value]
Thrown == [threw |-> TRUE, value |-> FALSE]

\* try { ... } catch (error) { console.error(...); return false; }
CatchReturnFalse(outcome) == IF outcome.threw THEN Returned(FALSE) ELSE outcome

\* The try block of comparePBKDF2Password, password-utils.ts:126-161.
PBKDF2Compared(password, hashedPassword) ==
    LET parts == SplitOnColon(hashedPassword)
        saltHex == parts[1]
    IN  IF saltHex = <<>> \/ Len(parts) < 2 THEN Returned(FALSE)
        ELSE IF parts[2] = <<>> THEN Returned(FALSE)
        ELSE IF HexToArrayBufferThrows(saltHex) THEN Thrown
        ELSE Returned(TimingSafeEqual(
                ArrayBufferToHex(DeriveBits(Encode(password),
                                            HexToArrayBuffer(saltHex))),
                parts[2]))

\* comparePBKDF2Password, password-utils.ts:124-166.
ComparePBKDF2Password(password, hashedPassword) ==
    CatchReturnFalse(PBKDF2Compared(password, hashedPassword))

\* isBcryptHash, password-utils.ts:94-97: /^\$2[abxy]\$\d{2}\$.{53}$/
IsDigitChar(c) == \E d \in 0..9 : Digit(d) = c

IsBcryptHash(hash) ==
    /\ Len(hash) = BcryptHashLength
    /\ hash[1] = "$" /\ hash[2] = "2" /\ hash[3] \in {"a", "b", "x", "y"}
    /\ hash[4] = "$" /\ IsDigitChar(hash[5]) /\ IsDigitChar(hash[6])
    /\ hash[7] = "$"
    /\ \A i \in 8..BcryptHashLength : hash[i] # NL

\* hashSync of the bcrypt library, for a salt: the version and cost prefix,
\* then 53 characters that are a function of salt and password; here the
\* salt character, the password and a filling of dots.
BcryptHashSync(password, salt) ==
    LET payload == <<salt>> \o password
    IN  <<"$", "2", "a", "$", "1", "0", "$">>
        \o [i \in 1..(BcryptHashLength - 7) |->
              IF i <= Len(payload) THEN payload[i] ELSE "."]

BcryptSalts == {"s", "t"}

\* compareSync of the bcrypt library: true exactly when the hash is the
\* library's hash of the password under some salt.
BcryptCompareSync(password, hash) ==
    \E salt \in BcryptSalts : hash = BcryptHashSync(password, salt)

\* compareBcryptPassword, password-utils.ts:105-116.
CompareBcryptPassword(password, hashedPassword) ==
    CatchReturnFalse(Returned(BcryptCompareSync(password, hashedPassword)))

\* comparePassword, password-utils.ts:73-87.
ComparePassword(password, hashedPassword) ==
    CatchReturnFalse(
        IF IsBcryptHash(hashedPassword)
        THEN CompareBcryptPassword(password, hashedPassword)
        ELSE ComparePBKDF2Password(password, hashedPassword))

\* The passwords and the salts of the model; getRandomValues may draw any
\* 16 bytes.
Passwords == {<<"p">>, <<"q">>, <<"p", "q">>, <<"uD800">>, <<"uD801">>}
Salts == {[i \in 1..SaltBytes |-> 0], [i \in 1..SaltBytes |-> (i * 37) % 256]}

\* A text of lower-case hexadecimal digits.
IsLowerHex(text) == \A i \in 1..Len(text) : \E d \in 1..16 : HexDigits[d] = text[i]

\* The two formats a stored hash has: 32 hexadecimal digits, a colon and 64
\* hexadecimal digits as hashPassword writes them, or a bcrypt hash.
WellFormedHash(text) ==
    \/ /\ Len(text) = 2 * SaltBytes + 1 + 2 * DerivedBytes
       /\ text[2 * SaltBytes + 1] = ":"
       /\ IsLowerHex(SubSeq(text, 1, 2 * SaltBytes))
       /\ IsLowerHex(SubSeq(text, 2 * SaltBytes + 2, Len(text)))
    \/ \E p \in Passwords, salt \in BcryptSalts : text = BcryptHashSync(p, salt)

ToUpperCase(c) ==
    IF HexValue(c) >= 10 THEN UpperHexDigits[HexValue(c) - 9] ELSE c

\* Stored values that are no hash, each made from a hash h.
Malformations(h) ==
    LET parts == SplitOnColon(h)
        saltHex == parts[1]
        hashHex == parts[2]
    IN  { <<>>,
          saltHex,
          <<":">> \o hashHex,
          saltHex \o <<":">>,
          Tail(h),
          SubSeq(h, 1, Len(h) - 1),
          h \o <<":", "x">>,
          [i \in 1..Len(saltHex) |-> ToUpperCase(saltHex[i])] \o <<":">> \o hashHex,
          <<"z", "z">> \o SubSeq(h, 3, Len(h)),
          <<"$", "2", "a", "$", "1", "0", "$">>
              \o [i \in 1..(BcryptHashLength - 7) |-> "."] }

PasswordInit ==
    /\ ViewerUnmounted
    /\ DesignerUnmounted
    /\ ServerDown
    /\ pwStored = {}
    /\ pwCall = <<>>

\* const stored = await hashPassword(password)
HashPasswordCall(password, salt) ==
    /\ Cardinality(pwStored) < MaxHashes
    /\ pwStored' = pwStored \cup
         {[password |-> password, salt |-> salt,
           hash |-> HashPassword(password, salt)]}
    /\ UNCHANGED <<pwCall, notPasswordVars>>

\* const stored = hashSync(password, 10): a hash of the legacy format.
HashSyncCall(password, salt) ==
    /\ Cardinality(pwStored) < MaxHashes
    /\ pwStored' = pwStored \cup
         {[password |-> password, salt |-> <<salt>>,
           hash |-> BcryptHashSync(password, salt)]}
    /\ UNCHANGED <<pwCall, notPasswordVars>>

Compared(password, hashedPassword, of) ==
    /\ pwCall' = <<[password |-> password, hashedPassword |-> hashedPassword,
                    of |-> of,
                    outcome |-> ComparePassword(password, hashedPassword)]>>
    /\ UNCHANGED <<pwStored, notPasswordVars>>

\* await comparePassword(password, stored) on a hash that was stored.
CompareStored(password, entry) ==
    /\ entry \in pwStored
    /\ Compared(password, entry.hash, entry)

\* await comparePassword(password, stored) on a stored value that is no
\* hash.
CompareMalformed(password, entry, bad) ==
    /\ entry \in pwStored
    /\ ~IsBcryptHash(entry.hash)
    /\ bad \in Malformations(entry.hash)
    /\ Compared(password, bad, entry)

PasswordNext ==
    \/ \E p \in Passwords, salt \in Salts : HashPasswordCall(p, salt)
    \/ \E p \in Passwords, salt \in BcryptSalts : HashSyncCall(p, salt)
    \/ \E p \in Passwords, entry \in pwStored : CompareStored(p, entry)
    \/ \E p \in Passwords, entry \in {e \in pwStored : ~IsBcryptHash(e.hash)} :
          \E bad \in Malformations(entry.hash) : CompareMalformed(p, entry, bad)

PasswordSpec == PasswordInit /\ [][PasswordNext]_vars

(***************************************************************************)
(* The server.  A request handler runs to its response in one step.        *)
(***************************************************************************)
MaxTicks == 2
MaxWrites == 1

\* Ticks of the clock in a day, and the first day of the model, kept to two
\* digits.
TicksPerDay == 2
StartDay == 10

\* 7 * 24 * 60 * 60 * 1000 milliseconds, part_004:49, register/route.ts:52.
SessionDays == 7

\* JSON values that are arrays and objects; of an object the model keeps
\* the names of the properties that hold arrays.
ArrV == [t |-> "array", b |-> FALSE, n |-> 0, s |-> <<>>]
ObjV(arrays) == [t |-> "object", b |-> FALSE, n |-> 0, s |-> arrays]

\* Array.isArray(value[name]) of an object.
HasArray(value, name) == \E i \in 1..Len(value.s) : value.s[i] = name

\* !value is false: an array and an object are truthy.
Truthy(value) == IF value.t \in {"array", "object"} THEN TRUE ELSE Boolean(value)

IsDigit(c) == \E d \in 0..9 : Digit(d) = c

\* The length of the longest prefix of digits of a text.
RECURSIVE DigitPrefix(_)
DigitPrefix(text) ==
    IF text # <<>> /\ IsDigit(Head(text)) THEN 1 + DigitPrefix(Tail(text)) ELSE 0

\* parseInt(value, 10) of a string or number without sign and leading
\* blanks: the number its leading digits spell, <<>> for NaN.
ParseInt(value) ==
    LET text == String(value)
        k == DigitPrefix(text)
    IN  IF k = 0 THEN <<>> ELSE <<DigitsToNat(SubSeq(text, 1, k))>>

\* A text that is the decimal numeral of a number.
IsNumeral(text) == text # <<>> /\ DigitPrefix(text) = Len(text)

\* The value is a number, or a text that spells one.
IsValidNumber(value) ==
    \/ value.t = "number"
    \/ value.t = "string" /\ IsNumeral(value.s)

\* The day and the time of day of a tick.
DayOf(tick) == StartDay + (tick \div TicksPerDay)
TimeOfDay(tick) == tick % TicksPerDay

\* new Date(ms).toISOString(): 'YYYY-MM-DDTHH:MM:SS.sssZ', here the day, the
\* letter T and the time of day.
ToISOString(tick) == NumToString(DayOf(tick)) \o <<"T", Digit(TimeOfDay(tick))>>

\* SQLite's datetime('now'): 'YYYY-MM-DD HH:MM:SS', here the day, a blank
\* and the time of day.
SqlDatetime(tick) == NumToString(DayOf(tick)) \o <<" ", Digit(TimeOfDay(tick))>>

\* The code of a character of a date text.
CharRank(c) ==
    IF c = " " THEN 32
    ELSE IF IsDigit(c) THEN 48 + DigitValue(c)
    ELSE 84

\* a > b of two TEXT values in SQLite: byte by byte, a proper prefix first.
RECURSIVE TextGreater(_, _)
TextGreater(a, b) ==
    IF a = <<>> THEN FALSE
    ELSE IF b = <<>> THEN TRUE
    ELSE IF CharRank(Head(a)) # CharRank(Head(b))
    THEN CharRank(Head(a)) > CharRank(Head(b))
    ELSE TextGreater(Tail(a), Tail(b))

\* Date.now() + 7 * 24 * 60 * 60 * 1000
SessionExpiry(tick) == tick + SessionDays * TicksPerDay

\* signCookie and verifyCookie of @/lib/cookie-utils: a cookie value signed
\* with the server's secret verifies to the value, any other to null.
SignCookie(value) == [value |-> value, signedWith |-> "secret"]
VerifyCookie(cookie) ==
    IF cookie.signedWith = "secret" THEN <<cookie.value>> ELSE <<>>

\* getSession, db.ts:522-530: WHERE id = ? AND expires_at > datetime('now')
GetSession(rows, sessionToken, tick) ==
    LET found == {s \in rows : /\ s.id = sessionToken
                               /\ TextGreater(s.expires_at, SqlDatetime(tick))}
    IN  IF found = {} THEN <<>> ELSE <<CHOOSE s \in found : TRUE>>

\* verifySession, part_000:18-48: <<>> for null, else <<the AuthContext>>.
VerifySession(cookie, rows, tick) ==
    IF cookie = <<>> THEN <<>>
    ELSE IF VerifyCookie(cookie[1]) = <<>> THEN <<>>
    ELSE LET session == GetSession(rows, VerifyCookie(cookie[1])[1], tick)
         IN  IF session = <<>> THEN <<>>
             ELSE <<[userId |-> session[1].user_id,
                     userType |-> session[1].user_type]>>

\* requireAdmin, part_000:71-87: the status it answers with, 0 when it
\* returns the AuthContext.
RequireAdmin(cookie, rows, tick) ==
    LET auth == VerifySession(cookie, rows, tick)
    IN  IF auth = <<>> THEN 401
        ELSE IF auth[1].userType # "admin" THEN 403
        ELSE 0

\* The columns of table submissions: CREATE TABLE submissions,
\* part_008:15-25, and the two ALTER TABLE of part_006:31-32.
SubmissionsColumns ==
    {"id", "form_id", "form_data", "pdf_url", "ai_summary", "submitted_by",
     "submitted_at", "status", "user_id", "user_type"}

\* D1 rejects a statement that names a column the table does not have.
NoSuchColumn(named, columns) == ~(named \subseteq columns)

\* createSubmission, db.ts:392-399: the INSERT throws.
CreateSubmissionThrows ==
    NoSuchColumn({"form_id", "form_data", "user_id", "user_type", "created_at"},
                 SubmissionsColumns)

\* getSubmissionsByFormId, db.ts:431-439: the SELECT throws.
GetSubmissionsByFormIdThrows ==
    NoSuchColumn({"id", "form_id", "form_data", "pdf_url", "ai_summary",
                  "created_at"},
                 SubmissionsColumns)

GetSubmissionsByFormId(rows, formId) == {r \in rows : r.form_id = formId}

\* getFormById, db.ts:354-361: <<>> for null.
GetFormById(rows, id) ==
    IF \E f \in rows : f.id = id
    THEN <<CHOOSE f \in rows : f.id = id>>
    ELSE <<>>

\* getUserByUsername, db.ts:473-480: the bound value is compared as TEXT.
GetUserByUsername(rows, username) ==
    IF \E u \in rows : u.username = String(username)
    THEN <<CHOOSE u \in rows : u.username = String(username)>>
    ELSE <<>>

\* value.length < n of a request value: undefined < n is false.
ShorterThan(value, n) == value.t = "string" /\ Len(value.s) < n

\* name.trim() of the names of the model, which hold blanks or none.
Trim(text) == SelectSeq(text, LAMBDA c : c # " ")

\* Responses.
Json(status) ==
    [status |-> status, setCookie |-> <<>>, location |-> <<>>, body |-> <<>>]
JsonBody(status, body) ==
    [status |-> status, setCookie |-> <<>>, location |-> <<>>, body |-> <<body>>]
WithCookie(status, cookie) ==
    [status |-> status, setCookie |-> <<cookie>>, location |-> <<>>, body |-> <<>>]
RedirectTo(location) ==
    [status |-> 307, setCookie |-> <<>>, location |-> <<location>>, body |-> <<>>]
PassThrough ==
    [status |-> 0, setCookie |-> <<>>, location |-> <<>>, body |-> <<>>]

\* The four tables.
Tables ==
    [users |-> users, sessions |-> sessions, forms |-> forms,
     submissions |-> submissions]

\* The idle server answers a request.
Answered(route, req, response) ==
    /\ lastCall = <<>>
    /\ lastCall' = <<[route |-> route, req |-> req, before |-> Tables,
                      at |-> clock, response |-> response]>>

\* The request changes a table.
Written ==
    /\ writes < MaxWrites
    /\ writes' = writes + 1

(***************************************************************************)
(* Texts of the model.                                                     *)
(***************************************************************************)
Ann == <<"a", "n", "n">>
Dis == <<"d", "i", "s">>
Bob == <<"b", "o", "b">>
Ab == <<"a", "b">>
Secret == <<"s", "e", "c", "r", "e", "t">>
Wrong == <<"w", "r", "o", "n", "g", "1">>
Abc == <<"a", "b", "c">>

AdminPath == <<"/", "a", "d", "m", "i", "n">>
AdminLoginPath == AdminPath \o <<"/", "l", "o", "g", "i", "n">>
ApiPrefix == <<"/", "a", "p", "i", "/">>
FormsPrefix == <<"/", "f", "o", "r", "m", "s", "/">>
PreviewPrefix == <<"/", "p", "r", "e", "v", "i", "e", "w", "/">>
NextPrefix == <<"/", "_", "n", "e", "x", "t", "/">>
FaviconPath == <<"/", "f", "a", "v", "i", "c", "o", "n", ".", "i", "c", "o">>

Paths ==
    { <<"/">>,
      AdminPath,
      AdminPath \o <<"/">>,
      AdminLoginPath,
      AdminPath \o <<"/", "b", "u", "i", "l", "d", "e", "r", "/", "1">>,
      AdminPath \o <<"i", "s", "t", "r", "a", "t", "o", "r">>,
      FormsPrefix \o <<"1">>,
      PreviewPrefix \o <<"1">>,
      ApiPrefix \o <<"a", "d", "m", "i", "n", "/", "f", "o", "r", "m", "s">>,
      FaviconPath,
      <<"/", "a", "b", "o", "u", "t">> }

\* pathname.startsWith(prefix)
StartsWith(text, prefix) ==
    Len(text) >= Len(prefix) /\ SubSeq(text, 1, Len(prefix)) = prefix

\* config.matcher, middleware.ts:42-53:
\* '/((?!api|_next/static|_next/image|favicon.ico).*)'
MatcherRuns(pathname) ==
    /\ ~StartsWith(pathname, <<"/", "a", "p", "i">>)
    /\ ~StartsWith(pathname, NextPrefix \o <<"s", "t", "a", "t", "i", "c">>)
    /\ ~StartsWith(pathname, NextPrefix \o <<"i", "m", "a", "g", "e">>)
    /\ ~StartsWith(pathname, FaviconPath)

\* middleware, middleware.ts:6-40, for the value of the admin-token cookie:
\* <<>> when the request has none.
MiddlewareResponse(pathname, adminToken) ==
    IF \/ StartsWith(pathname, ApiPrefix)
       \/ StartsWith(pathname, NextPrefix)
       \/ StartsWith(pathname, FaviconPath)
       \/ pathname = <<"/">>
       \/ StartsWith(pathname, FormsPrefix)
       \/ StartsWith(pathname, PreviewPrefix)
    THEN PassThrough
    ELSE IF /\ StartsWith(pathname, AdminPath \o <<"/">>)
            /\ (adminToken = <<>> \/ adminToken[1] = <<>>)
    THEN RedirectTo(AdminLoginPath)
    ELSE PassThrough

(***************************************************************************)
(* The databases the server starts on: the empty one the migrations leave, *)
(* and one in use, with an active and a disabled user, an admin session, a *)
(* user session, an admin session that expires at the start, a form with a *)
(* submission and a form without.                                          *)
(***************************************************************************)
SeedUsers ==
    { [id |-> 1, username |-> Ann, is_active |-> TRUE,
       password_hash |-> BcryptHashSync(Secret, "s")],
      [id |-> 2, username |-> Dis, is_active |-> FALSE,
       password_hash |-> BcryptHashSync(Secret, "t")] }

SeedSessions ==
    { [id |-> 1, user_id |-> 1, user_type |-> "admin",
       expires_at |-> ToISOString(SessionExpiry(0))],
      [id |-> 2, user_id |-> 1, user_type |-> "user",
       expires_at |-> ToISOString(SessionExpiry(0))],
      [id |-> 3, user_id |-> 1, user_type |-> "admin",
       expires_at |-> ToISOString(0)] }

SeedForms ==
    { [id |-> 1, name |-> <<"f">>, template_data |-> ObjV(<<"schemas", "columns">>)],
      [id |-> 2, name |-> <<"g">>, template_data |-> ObjV(<<"schemas", "columns">>)] }

SeedSubmissions == { [id |-> 1, form_id |-> 1, data |-> ArrV] }

ServerInit ==
    /\ ViewerUnmounted
    /\ DesignerUnmounted
    /\ PasswordsUnused
    /\ \/ /\ users = {}
          /\ sessions = {}
          /\ forms = {}
          /\ submissions = {}
       \/ /\ users = SeedUsers
          /\ sessions = SeedSessions
          /\ forms = SeedForms
          /\ submissions = SeedSubmissions
    /\ lastId = [users |-> Cardinality(users), forms |-> Cardinality(forms),
                 submissions |-> Cardinality(submissions)]
    /\ uuids = Cardinality(sessions)
    /\ clock = 1
    /\ lastCall = <<>>
    /\ writes = 0

\* The session cookies a request may carry: none, the signed cookie of
\* every session issued so far, whether its row is still there or not, the
\* cookie of a session that never had a row, and a cookie that names a
\* session but was not signed with the server's secret.
SessionCookies ==
    {<<>>, <<SignCookie(0)>>}
    \cup {<<SignCookie(id)>> : id \in 1..uuids}
    \cup {<<[value |-> s.id, signedWith |-> "other"]>> :
            s \in {r \in sessions : r.user_type = "admin"}}

AdminTokens == {<<>>, <<<<>>>>, <<<<"t">>>>}

FormIds == {<<"1">>, <<"2">>, <<"9">>, <<"a", "b", "c">>, <<"2", "a", "b", "c">>}

FormBodies ==
    { [name |-> Undefined, template_data |-> ObjV(<<>>)],
      [name |-> StrV(<<" ">>), template_data |-> ObjV(<<>>)],
      [name |-> StrV(<<"h">>), template_data |-> Undefined],
      [name |-> StrV(<<"h">>), template_data |-> ObjV(<<>>)],
      [name |-> StrV(<<"h">>), template_data |-> ObjV(<<"schemas", "template">>)] }

SubmissionFormIds ==
    {Undefined, NumV(0), NumV(1), NumV(9), StrV(<<"1">>),
     StrV(<<"1", "a", "b", "c">>), StrV(<<"a", "b", "c">>)}

SubmissionBodies ==
    { [formId |-> formId, data |-> payload, submittedAt |-> StrV(<<"T">>)] :
        formId \in SubmissionFormIds, payload \in {Undefined, ArrV, ObjV(<<>>)} }
    \cup { [formId |-> formId, data |-> ArrV, submittedAt |-> Undefined] :
             formId \in SubmissionFormIds }

Credentials ==
    { [username |-> username, password |-> password] :
        username \in {Undefined, StrV(Ab), StrV(Ann), StrV(Dis), StrV(Bob),
                      NumV(12)},
        password \in {Undefined, StrV(Secret), StrV(Wrong)} }

Registrations ==
    { [username |-> username, password |-> password] :
        username \in {Undefined, StrV(Ab), StrV(Ann), StrV(Bob), NumV(12)},
        password \in {Undefined, StrV(Abc), StrV(Secret)} }

\* The salt hashSync draws.
HashSalts == {"s"}

PutIds == {<<"1">>, <<"9">>}
PutBodies ==
    { [name |-> Undefined, template_data |-> ObjV(<<>>)],
      [name |-> StrV(<<"h">>), template_data |-> ObjV(<<>>)],
      [name |-> StrV(<<"h">>), template_data |-> ObjV(<<"schemas", "template">>)] }

\* Time passes.
ClockTick ==
    /\ lastCall = <<>>
    /\ clock < MaxTicks
    /\ clock' = clock + 1
    /\ UNCHANGED <<users, sessions, forms, submissions, lastId, uuids,
                   lastCall, writes, notServerVars>>

\* The response is on its way and the server is idle again.
ResponseSent ==
    /\ lastCall # <<>>
    /\ lastCall' = <<>>
    /\ UNCHANGED <<users, sessions, forms, submissions, lastId, uuids, clock,
                   writes, notServerVars>>

\* middleware, middleware.ts:6-40, on a request the matcher hands to it.
Middleware(pathname, adminToken) ==
    /\ MatcherRuns(pathname)
    /\ Answered("middleware", [pathname |-> pathname, adminToken |-> adminToken],
                MiddlewareResponse(pathname, adminToken))
    /\ UNCHANGED <<users, sessions, forms, submissions, lastId, uuids, clock,
                   writes, notServerVars>>

\* GET /api/admin/forms, route.ts:23-43.
AdminFormsGET(cookie) ==
    LET gate == RequireAdmin(cookie, sessions, clock)
    IN  /\ Answered("GET forms", [cookie |-> cookie],
                    IF gate # 0 THEN Json(gate) ELSE JsonBody(200, forms))
        /\ UNCHANGED <<users, sessions, forms, submissions, lastId, uuids,
                       clock, writes, notServerVars>>

\* POST /api/admin/forms, route.ts:45-107, and createForm, db.ts:364-371.
AdminFormsPOST(cookie, body) ==
    LET gate == RequireAdmin(cookie, sessions, clock)
        status ==
            IF gate # 0 THEN gate
            ELSE IF ~Truthy(body.name) THEN 400
            ELSE IF Trim(body.name.s) = <<>> THEN 400
            ELSE IF ~Truthy(body.template_data) THEN 400
            ELSE IF body.template_data.t # "object" THEN 400
            ELSE 201
        created ==
            [id |-> lastId.forms + 1, name |-> Trim(body.name.s),
             template_data |-> ObjV(<<"schemas", "columns">>)]
    IN  /\ Answered("POST forms", [cookie |-> cookie, body |-> body],
                    IF status = 201 THEN JsonBody(201, created) ELSE Json(status))
        /\ IF status = 201
           THEN /\ Written
                /\ forms' = forms \cup {created}
                /\ lastId' = [lastId EXCEPT !.forms = @ + 1]
           ELSE UNCHANGED <<forms, lastId, writes>>
        /\ UNCHANGED <<users, sessions, submissions, uuids, clock, notServerVars>>

\* GET /api/admin/forms/[id], route.ts:119-157.
AdminFormGET(cookie, id) ==
    LET gate == RequireAdmin(cookie, sessions, clock)
        formId == ParseInt(StrV(id))
    IN  /\ Answered("GET form", [cookie |-> cookie, id |-> id],
                    IF gate # 0 THEN Json(gate)
                    ELSE IF formId = <<>> THEN Json(400)
                    ELSE IF GetFormById(forms, formId[1]) = <<>> THEN Json(404)
                    ELSE JsonBody(200, GetFormById(forms, formId[1])[1]))
        /\ UNCHANGED <<users, sessions, forms, submissions, lastId, uuids,
                       clock, writes, notServerVars>>

\* PUT /api/admin/forms/[id], route.ts:159-240, and updateForm, db.ts:373-381.
AdminFormPUT(cookie, id, body) ==
    LET gate == RequireAdmin(cookie, sessions, clock)
        formId == ParseInt(StrV(id))
        status ==
            IF gate # 0 THEN gate
            ELSE IF formId = <<>> THEN 400
            ELSE IF ~Truthy(body.name) \/ body.name.t # "string" THEN 400
            ELSE IF ~Truthy(body.template_data) THEN 400
            ELSE IF body.template_data.t # "object" THEN 400
            ELSE IF GetFormById(forms, formId[1]) = <<>> THEN 404
            ELSE IF ~(/\ HasArray(body.template_data, "schemas")
                       /\ HasArray(body.template_data, "template")) THEN 400
            ELSE 200
        updated ==
            [id |-> formId[1], name |-> Trim(body.name.s),
             template_data |-> body.template_data]
    IN  /\ Answered("PUT form", [cookie |-> cookie, id |-> id, body |-> body],
                    IF status = 200 THEN JsonBody(200, updated) ELSE Json(status))
        /\ IF status = 200
           THEN /\ Written
                /\ forms' = {f \in forms : f.id # formId[1]} \cup {updated}
           ELSE UNCHANGED <<forms, writes>>
        /\ UNCHANGED <<users, sessions, submissions, lastId, uuids, clock,
                       notServerVars>>

\* deleteForm, db.ts:383-389.
DeleteForm(rows, id) == {f \in rows : f.id # id}

\* The status DELETE /api/admin/forms/[id] answers with, route.ts:242-302.
DeleteStatus(cookie, id) ==
    LET gate == RequireAdmin(cookie, sessions, clock)
        formId == ParseInt(StrV(id))
    IN  IF gate # 0 THEN gate
        ELSE IF formId = <<>> THEN 400
        ELSE IF GetFormById(forms, formId[1]) = <<>> THEN 404
        ELSE IF GetSubmissionsByFormIdThrows THEN 500
        ELSE IF Cardinality(GetSubmissionsByFormId(submissions, formId[1])) > 0
        THEN 409
        ELSE 200

\* DELETE /api/admin/forms/[id], route.ts:242-302.
AdminFormDELETE(cookie, id) ==
    /\ Answered("DELETE form", [cookie |-> cookie, id |-> id],
                Json(DeleteStatus(cookie, id)))
    /\ IF DeleteStatus(cookie, id) = 200
       THEN /\ Written
            /\ forms' = DeleteForm(forms, ParseInt(StrV(id))[1])
       ELSE UNCHANGED <<forms, writes>>
    /\ UNCHANGED <<users, sessions, submissions, lastId, uuids, clock,
                   notServerVars>>

\* The status POST /api/form-submissions answers with, route.ts:17-101.
SubmissionStatus(body) ==
    IF ~Truthy(body.formId) \/ ~Truthy(body.data) \/ ~Truthy(body.submittedAt)
    THEN 400
    ELSE IF ParseInt(body.formId) = <<>> THEN 400
    ELSE IF body.data.t # "array" THEN 400
    ELSE IF GetFormById(forms, ParseInt(body.formId)[1]) = <<>> THEN 404
    ELSE IF CreateSubmissionThrows THEN 500
    ELSE 201

\* POST /api/form-submissions, route.ts:17-101, and createSubmission,
\* db.ts:392-399.
FormSubmissionsPOST(body) ==
    /\ Answered("POST form-submissions", [body |-> body],
                Json(SubmissionStatus(body)))
    /\ IF SubmissionStatus(body) = 201
       THEN /\ Written
            /\ submissions' = submissions \cup
                 {[id |-> lastId.submissions + 1,
                   form_id |-> ParseInt(body.formId)[1], data |-> body.data]}
            /\ lastId' = [lastId EXCEPT !.submissions = @ + 1]
       ELSE UNCHANGED <<submissions, lastId, writes>>
    /\ UNCHANGED <<users, sessions, forms, uuids, clock, notServerVars>>

\* crypto.randomUUID(), createSession (db.ts:513-520) of a 'user' session
\* that expires in 7 days, and the signed session cookie in the response.
SessionIssued(route, req, userId) ==
    /\ Written
    /\ uuids' = uuids + 1
    /\ sessions' = sessions \cup
         {[id |-> uuids + 1, user_id |-> userId, user_type |-> "user",
           expires_at |-> ToISOString(SessionExpiry(clock))]}
    /\ Answered(route, req, WithCookie(200, SignCookie(uuids + 1)))

\* The status POST /api/register answers with, register/route.ts:8-83.
RegisterStatus(body) ==
    IF ~Truthy(body.username) \/ ~Truthy(body.password) THEN 400
    ELSE IF ShorterThan(body.username, 3) THEN 400
    ELSE IF ShorterThan(body.password, 6) THEN 400
    ELSE IF GetUserByUsername(users, body.username) # <<>> THEN 409
    ELSE 200

\* POST /api/register, register/route.ts:8-83, and createUser,
\* db.ts:493-500, with the salt hashSync drew.
RegisterPOST(body, salt) ==
    IF RegisterStatus(body) = 200
    THEN /\ users' = users \cup
              {[id |-> lastId.users + 1, username |-> String(body.username),
                is_active |-> TRUE,
                password_hash |-> BcryptHashSync(body.password.s, salt)]}
         /\ lastId' = [lastId EXCEPT !.users = @ + 1]
         /\ SessionIssued("POST register", [body |-> body], lastId.users + 1)
         /\ UNCHANGED <<forms, submissions, clock, notServerVars>>
    ELSE /\ Answered("POST register", [body |-> body], Json(RegisterStatus(body)))
         /\ UNCHANGED <<users, sessions, forms, submissions, lastId, uuids,
                        clock, writes, notServerVars>>

\* Mutant of LoginStatus: a disabled account is not turned away.
LoginStatusOfAnyAccount(body) ==
    LET user == GetUserByUsername(users, body.username)
    IN  IF ~Truthy(body.username) \/ ~Truthy(body.password) THEN 400
        ELSE IF user = <<>> THEN 401
        ELSE IF ~BcryptCompareSync(body.password.s, user[1].password_hash) THEN 401
        ELSE 200

\* The status POST /api/login answers with, part_004:8-86.
LoginStatus(body) ==
    LET user == GetUserByUsername(users, body.username)
    IN  IF ~Truthy(body.username) \/ ~Truthy(body.password) THEN 400
        ELSE IF user = <<>> THEN 401
        ELSE IF ~user[1].is_active THEN 403
        ELSE IF ~BcryptCompareSync(body.password.s, user[1].password_hash) THEN 401
        ELSE 200

\* POST /api/login, part_004:8-86.
LoginPOST(body) ==
    IF LoginStatus(body) = 200
    THEN /\ SessionIssued("POST login", [body |-> body],
                          GetUserByUsername(users, body.username)[1].id)
         /\ UNCHANGED <<users, forms, submissions, lastId, clock, notServerVars>>
    ELSE /\ Answered("POST login", [body |-> body], Json(LoginStatus(body)))
         /\ UNCHANGED <<users, sessions, forms, submissions, lastId, uuids,
                        clock, writes, notServerVars>>

\* deleteSession, db.ts:532-538.
DeleteSession(rows, sessionId) == {row \in rows : row.id # sessionId}

\* response.cookies.set('session', '', { maxAge: 0 })
ClearedCookie == [value |-> 0, signedWith |-> "cleared"]

\* POST /api/logout, logout/route.ts:8-59.
LogoutPOST(cookie) ==
    IF cookie = <<>>
    THEN /\ Answered("POST logout", [cookie |-> cookie], Json(200))
         /\ UNCHANGED <<users, sessions, forms, submissions, lastId, uuids,
                        clock, writes, notServerVars>>
    ELSE IF VerifyCookie(cookie[1]) = <<>>
    THEN /\ Answered("POST logout", [cookie |-> cookie],
                     WithCookie(200, ClearedCookie))
         /\ UNCHANGED <<users, sessions, forms, submissions, lastId, uuids,
                        clock, writes, notServerVars>>
    ELSE /\ Answered("POST logout", [cookie |-> cookie],
                     WithCookie(200, ClearedCookie))
         /\ sessions' = DeleteSession(sessions, VerifyCookie(cookie[1])[1])
         /\ IF sessions' # sessions THEN Written ELSE UNCHANGED writes
         /\ UNCHANGED <<users, forms, submissions, lastId, uuids, clock,
                        notServerVars>>

\* The admin_users table after migration 0003: the row of 'admin' holds the
\* bcrypt hash of the password 'demo123'.
Demo123 == <<"d", "e", "m", "o", "1", "2", "3">>
AdminPasswordHash == BcryptHashSync(Demo123, "s")
AdminUsers ==
    { [id |-> 1, username |-> <<"a", "d", "m", "i", "n">>,
       password_hash |-> AdminPasswordHash] }

\* getAdminByUsername, db.ts:443-451.
GetAdminByUsername(rows, username) ==
    IF \E row \in rows : row.username = username
    THEN <<CHOOSE row \in rows : row.username = username>>
    ELSE <<>>

\* The INSERT of createSession, db.ts:513-520, fails: D1 binds no undefined
\* value, expires_at is NOT NULL and user_type is checked to be 'admin' or
\* 'user' (migration 0004).
CreateSessionThrows(userType, expiresAt) ==
    \/ userType = <<>>
    \/ expiresAt = <<>>
    \/ userType[1] \notin {"admin", "user"}

\* createSession(adminUser.id, sessionId, expiresAt), route.ts:44: the three
\* arguments land in the parameters userId, userType and sessionId of
\* createSession(userId, userType, sessionId, expiresAt), and expiresAt is
\* left undefined.
AdminCreateSessionArguments(userId, sessionId, expiresAt) ==
    [userId |-> userId, userType |-> <<sessionId>>, sessionId |-> expiresAt,
     expiresAt |-> <<>>]

\* The session id, 32 random bytes in hex, of the admin login that would be
\* the next one.
AdminSessionId == <<"hex", uuids + 1>>

\* The status POST /api/admin/login answers with, admin/login/route.ts:4-74.
AdminLoginStatus(body) ==
    LET adminUser == GetAdminByUsername(AdminUsers, <<"a", "d", "m", "i", "n">>)
        args == AdminCreateSessionArguments(
                    adminUser[1].id, AdminSessionId, ToISOString(clock + TicksPerDay))
    IN  IF ~Truthy(body.password) THEN 400
        ELSE IF adminUser = <<>> THEN 401
        ELSE IF StrV(adminUser[1].password_hash) # body.password THEN 401
        ELSE IF CreateSessionThrows(args.userType, args.expiresAt) THEN 500
        ELSE 200

\* response.cookies.set('admin-token', sessionId, ...), route.ts:57-63.
AdminTokenCookie(sessionId) == [value |-> sessionId, signedWith |-> "none"]

\* POST /api/admin/login, admin/login/route.ts:4-74.
AdminLoginPOST(body) ==
    IF AdminLoginStatus(body) = 200
    THEN LET args == AdminCreateSessionArguments(
                         GetAdminByUsername(AdminUsers, <<"a", "d", "m", "i", "n">>)[1].id,
                         AdminSessionId, ToISOString(clock + TicksPerDay))
         IN  /\ Written
             /\ uuids' = uuids + 1
             /\ sessions' = sessions \cup
                  {[id |-> args.sessionId, user_id |-> args.userId,
                    user_type |-> args.userType[1],
                    expires_at |-> args.expiresAt[1]]}
             /\ Answered("POST admin login", [body |-> body],
                         WithCookie(200, AdminTokenCookie(AdminSessionId)))
             /\ UNCHANGED <<users, forms, submissions, lastId, clock,
                            notServerVars>>
    ELSE /\ Answered("POST admin login", [body |-> body],
                     Json(AdminLoginStatus(body)))
         /\ UNCHANGED <<users, sessions, forms, submissions, lastId, uuids,
                        clock, writes, notServerVars>>

\* The passwords sent to the admin login: none, the admin's password, another
\* text, and the text of the stored hash.
AdminLoginBodies ==
    { [password |-> password] :
        password \in {Undefined, StrV(Demo123), StrV(Wrong),
                      StrV(AdminPasswordHash)} }

ServerNext ==
    \/ ClockTick
    \/ ResponseSent
    \/ \E pathname \in Paths, adminToken \in AdminTokens :
          Middleware(pathname, adminToken)
    \/ \E cookie \in SessionCookies : AdminFormsGET(cookie)
    \/ \E cookie \in SessionCookies, body \in FormBodies :
          AdminFormsPOST(cookie, body)
    \/ \E cookie \in SessionCookies, id \in PutIds \cup {<<"a", "b", "c">>} :
          AdminFormGET(cookie, id)
    \/ \E cookie \in SessionCookies, id \in PutIds, body \in PutBodies :
          AdminFormPUT(cookie, id, body)
    \/ \E cookie \in SessionCookies, id \in FormIds : AdminFormDELETE(cookie, id)
    \/ \E body \in SubmissionBodies : FormSubmissionsPOST(body)
    \/ \E body \in Registrations, salt \in HashSalts : RegisterPOST(body, salt)
    \/ \E body \in Credentials : LoginPOST(body)
    \/ \E cookie \in SessionCookies : LogoutPOST(cookie)
    \/ \E body \in AdminLoginBodies : AdminLoginPOST(body)

ServerSpec == ServerInit /\ [][ServerNext]_vars

(***************************************************************************)
(* Vocabulary of the claims.                                               *)
(***************************************************************************)
Populated(field, rec) == ~Absent(Lookup(rec, field.name))

\* The indices of the populated fields of a page, ascending.
PopulatedIdx(pageSchemas, rec) ==
    SelectSeq([k \in 1..Len(pageSchemas) |-> k],
              LAMBDA k : Populated(pageSchemas[k], rec))

\* The latest generation has composed its fragments; a generation has
\* completed and published its document.
Composed == htmlPages # <<>>
Generated == generatedPdfBytes # <<>>

\* The data-model invariant of a template: every field has one of the six
\* kinds, positive extents and a non-negative origin.
KindsKnown(tmpl) ==
    \A i \in 1..Len(tmpl.schemas) : \A k \in 1..Len(tmpl.schemas[i]) :
        tmpl.schemas[i][k].type \in KnownKinds

GeometryValid(tmpl) ==
    \A i \in 1..Len(tmpl.schemas) : \A k \in 1..Len(tmpl.schemas[i]) :
        LET f == tmpl.schemas[i][k]
        IN  /\ f.width > 0 /\ f.height > 0
            /\ f.x >= 0 /\ f.y >= 0

WellFormed(tmpl) == KindsKnown(tmpl) /\ GeometryValid(tmpl)

AllPopulated(tmpl, rec) ==
    \A i \in 1..Len(tmpl.schemas) : \A k \in 1..Len(tmpl.schemas[i]) :
        Populated(tmpl.schemas[i][k], rec)

\* JavaScript's falsy values among the values of the model.
Falsy == {Undefined, Null, BoolV(FALSE), NumV(0), StrV(<<>>)}

\* Where the claims put a field (x, y, w, h) on a page of height H, in PDF
\* bottom-left coordinates.
Flipped(f, H) ==
    [x |-> f.x, top |-> H - f.y, bottom |-> H - f.y - f.height,
     width |-> f.width, height |-> f.height]

\* C1: every populated field (x, y, w, h) of schema page i is placed on
\* output page i with its bottom edge at H - y - h and its top edge at H - y
\* in PDF bottom-left coordinates, x, w and h unchanged.  Stated for
\* well-formed templates.
FieldPlacedAtFlippedEdges ==
    Generated /\ WellFormed(genTemplate) =>
        LET doc == generatedPdfBytes[1]
        IN  \A i \in 1..Len(genTemplate.schemas) :
              \A k \in 1..Len(genTemplate.schemas[i]) :
                LET f == genTemplate.schemas[i][k]
                IN  Populated(f, genData) =>
                      /\ i \in 1..Len(doc.pages)
                      /\ Flipped(f, doc.pageHeight) \in PlacedOn(doc, i)

\* The same for the fields of the first schema page only.
FirstPagePlacedAtFlippedEdges ==
    Generated /\ Len(genTemplate.schemas) >= 1 =>
        LET doc == generatedPdfBytes[1]
        IN  \A k \in 1..Len(genTemplate.schemas[1]) :
              LET f == genTemplate.schemas[1][k]
              IN  Populated(f, genData) =>
                    Flipped(f, 792) \in PlacedOn(doc, 1)

\* C7: without a base document, a template of n >= 1 schema pages yields a
\* document of exactly n letter-size pages, output page i showing the
\* fields of schema page i.  Stated for well-formed templates.
OnePdfPagePerSchemaPage ==
    /\ Generated /\ WellFormed(genTemplate)
    /\ genTemplate.basePdf = <<>> /\ Len(genTemplate.schemas) >= 1
    =>
        LET doc == generatedPdfBytes[1]
        IN  /\ Len(doc.pages) = Len(genTemplate.schemas)
            /\ doc.pageWidth = 612 /\ doc.pageHeight = 792
            /\ \A i \in 1..Len(genTemplate.schemas) :
                 i \in 1..Len(doc.pages) =>
                    PlacedOn(doc, i) =
                      { Flipped(genTemplate.schemas[i][k], 792) :
                          k \in { q \in 1..Len(genTemplate.schemas[i]) :
                                    Populated(genTemplate.schemas[i][q], genData) } }


AbsentValueDrawsNothing ==
    Composed =>
        \A i \in 1..Len(genTemplate.schemas) :
            LET page == genTemplate.schemas[i]
                blocks == htmlPages[1][i]
            IN  /\ Len(blocks) = Len(PopulatedIdx(page, genData))
                /\ (\A k \in 1..Len(page) : ~Populated(page[k], genData))
                      => blocks = <<>>
                /\ \A j \in 1..Len(blocks) : \A q \in 1..Len(blocks[j].prims) :
                      \A k \in 1..Len(page) :
                          blocks[j].prims[q].text # page[k].placeholder

\* A page with a populated field and a field without a key was composed:
\* one block for the former, none for the latter.
AbsentBesidePopulated ==
    /\ Composed
    /\ \E i \in 1..Len(genTemplate.schemas) :
         LET page == genTemplate.schemas[i]
         IN  /\ Len(page) = 2
             /\ Populated(page[1], genData)
             /\ page[2].name \notin DOMAIN genData
             /\ Len(htmlPages[1][i]) = 1

\* A page whose only field has the value undefined under its key was
\* composed to an empty fragment.
UndefinedValueSkipped ==
    /\ Composed
    /\ Len(genTemplate.schemas) = 1
    /\ Len(genTemplate.schemas[1]) = 1
    /\ genTemplate.schemas[1][1].name \in DOMAIN genData
    /\ genData[genTemplate.schemas[1][1].name] = Undefined
    /\ htmlPages[1][1] = <<>>

\* C4: a textarea block of height h and font size f carries exactly the
\* lines whose top i * f * 1.2 is below h, in order, and no other line.
\* Stated for well-formed templates.
MultilineClipsAtHeight ==
    Composed /\ WellFormed(genTemplate) =>
        \A i \in 1..Len(genTemplate.schemas) :
            LET page == genTemplate.schemas[i]
                idx == PopulatedIdx(page, genData)
            IN  \A j \in 1..Len(idx) :
                  LET f == page[idx[j]]
                      lines == Split(String(Lookup(genData, f.name)))
                      shown == { n \in 1..Len(lines) :
                                   (n - 1) * FontSizeOf(f) * LineHeightTenths
                                       < f.height * 10 }
                  IN  f.type = "textarea" =>
                        /\ j \in 1..Len(htmlPages[1][i])
                        /\ Len(htmlPages[1][i][j].prims) = Cardinality(shown)
                        /\ \A n \in shown :
                              /\ n \in 1..Len(htmlPages[1][i][j].prims)
                              /\ htmlPages[1][i][j].prims[n].text
                                    = IF lines[n] = <<>> THEN <<NBSP>> ELSE lines[n]

\* C5: a checkbox with a present value emits the border square of side
\* min(width, height) at the field's top-left corner whatever the value, and
\* the check glyph after it exactly when the value is truthy.
CheckboxBorderAlways ==
    Composed =>
        \A i \in 1..Len(genTemplate.schemas) :
            LET page == genTemplate.schemas[i]
                idx == PopulatedIdx(page, genData)
            IN  \A j \in 1..Len(idx) :
                  LET f == page[idx[j]]
                      truthy == Lookup(genData, f.name) \notin Falsy
                  IN  f.type = "checkbox" =>
                        /\ j \in 1..Len(htmlPages[1][i])
                        /\ LET blk == htmlPages[1][i][j]
                           IN  /\ blk.left = f.x /\ blk.top = f.y
                               /\ blk.padding = 0
                               /\ Len(blk.prims) = (IF truthy THEN 2 ELSE 1)
                               /\ blk.prims[1].op = "rect"
                               /\ blk.prims[1].size
                                    = (IF f.width <= f.height THEN f.width
                                       ELSE f.height)
                               /\ truthy => blk.prims[2].op = "glyph"

CheckboxOf(val, w, h) ==
    /\ Composed
    /\ Len(genTemplate.schemas) = 1
    /\ Len(genTemplate.schemas[1]) = 1
    /\ genTemplate.schemas[1][1].type = "checkbox"
    /\ genTemplate.schemas[1][1].width = w
    /\ genTemplate.schemas[1][1].height = h
    /\ Lookup(genData, genTemplate.schemas[1][1].name) = val

\* An unchecked 150 x 24 checkbox was composed to its border alone, and
\* (second witness) a checked 20 x 40 one to border and glyph.
CheckboxFalseDrawn ==
    /\ CheckboxOf(BoolV(FALSE), 150, 24)
    /\ Len(htmlPages[1][1][1].prims) = 1
    /\ htmlPages[1][1][1].prims[1].size = 24

CheckboxTrueDrawn ==
    /\ CheckboxOf(BoolV(TRUE), 20, 40)
    /\ Len(htmlPages[1][1][1].prims) = 2
    /\ htmlPages[1][1][1].prims[1].size = 20

\* The block carries the rectangle of the field and the visual of its kind.
BlockOfField(blk, f) ==
    /\ blk.left = f.x /\ blk.top = f.y
    /\ blk.width = f.width /\ blk.height = f.height
    /\ f.type = "checkbox" => blk.kind = "checkbox"
    /\ f.type = "textarea" => blk.kind = "textarea"
    /\ f.type \in {"text", "number", "email", "date"} => blk.kind = "line"

\* C6: the i-th page fragment is built from template.schemas[i], and its
\* blocks are the populated fields of that page in insertion order, none
\* reordered, duplicated or left out.
PageAndFieldOrderPreserved ==
    Composed =>
        /\ Len(htmlPages[1]) = Len(genTemplate.schemas)
        /\ \A i \in 1..Len(genTemplate.schemas) :
             LET page == genTemplate.schemas[i]
                 idx == PopulatedIdx(page, genData)
             IN  /\ Len(htmlPages[1][i]) = Len(idx)
                 /\ \A j \in 1..Len(idx) :
                       BlockOfField(htmlPages[1][i][j], page[idx[j]])

\* A three-page template whose last page holds two populated fields of
\* different kinds was composed, the other pages staying empty.
ThreePagesComposedInOrder ==
    /\ Composed
    /\ Len(genTemplate.schemas) = 3
    /\ Len(genTemplate.schemas[3]) = 2
    /\ genTemplate.schemas[3][1].type = "checkbox"
    /\ genTemplate.schemas[3][2].type = "text"
    /\ Populated(genTemplate.schemas[3][1], genData)
    /\ Populated(genTemplate.schemas[3][2], genData)
    /\ htmlPages[1][1] = <<>>
    /\ htmlPages[1][2] = <<>>
    /\ Len(htmlPages[1][3]) = 2
    /\ htmlPages[1][3][1].kind = "checkbox"
    /\ htmlPages[1][3][2].kind = "line"


\* The generation in flight or last run has ended.
Ended == generations > 0 /\ pc = "idle"

HasUnknownKind(tmpl) ==
    \E i \in 1..Len(tmpl.schemas) : \E k \in 1..Len(tmpl.schemas[i]) :
        tmpl.schemas[i][k].type \notin KnownKinds

HasDegenerateField(tmpl) ==
    \E i \in 1..Len(tmpl.schemas) : \E k \in 1..Len(tmpl.schemas[i]) :
        tmpl.schemas[i][k].width <= 0 \/ tmpl.schemas[i][k].height <= 0

ExceedsBase(tmpl) ==
    tmpl.basePdf # <<>> /\ Len(tmpl.schemas) > tmpl.basePdf[1]

\* The render failed with the named condition and left no output behind.
FailedWith(condition) ==
    /\ ~Composed
    /\ ~Generated
    /\ pdfUrl = <<>>
    /\ Ended => error \in {<<condition>>,
                           <<"Failed to generate PDF: " \o condition>>}

\* C8: a render over a template holding a field of a kind that is not one
\* of the six fails with UnsupportedFieldKind and produces no output; an
\* unrecognized kind is never drawn with a default visual.  Stated for
\* templates of valid geometry whose fields all have a value.
UnknownKindFails ==
    /\ generations > 0 /\ HasUnknownKind(genTemplate)
    /\ GeometryValid(genTemplate) /\ AllPopulated(genTemplate, genData)
    => FailedWith("UnsupportedFieldKind")

\* C9: a render over a field with width <= 0 or height <= 0 fails with
\* InvalidGeometry and draws nothing; no block of a fragment has a
\* non-positive extent.  Stated for templates of known kinds whose fields
\* all have a value.
DegenerateGeometryFails ==
    /\ generations > 0 /\ HasDegenerateField(genTemplate)
    /\ KindsKnown(genTemplate) /\ AllPopulated(genTemplate, genData)
    => /\ FailedWith("InvalidGeometry")
       /\ Composed =>
            \A i \in 1..Len(htmlPages[1]) : \A j \in 1..Len(htmlPages[1][i]) :
                htmlPages[1][i][j].width > 0 /\ htmlPages[1][i][j].height > 0

\* C10: with a base document, schema page i maps to base page i, and a
\* render of a template with more schema pages than the base document has
\* pages fails with PageIndexOutOfRange; no page is added or dropped.
PageCountBeyondBaseFails ==
    /\ generations > 0 /\ WellFormed(genTemplate) /\ ExceedsBase(genTemplate)
        => FailedWith("PageIndexOutOfRange")
    /\ Generated /\ WellFormed(genTemplate) /\ genTemplate.basePdf # <<>>
        /\ ~ExceedsBase(genTemplate)
        => Len(generatedPdfBytes[1].pages) = genTemplate.basePdf[1]

(***************************************************************************)
(* Claims about the designers.                                             *)
(***************************************************************************)

\* C11: after any sequence of designer operations every field of every
\* page of the designer's template has width > 0, height > 0, x >= 0 and
\* y >= 0.
DesignerKeepsGeometryValid ==
    impl \in {"canvas", "paged"} => GeometryValid(designerTemplate)

\* The pages other than page `page` (0-based) are the same in the page
\* lists `before` and `after`.
OtherPagesSame(before, after, page) ==
    /\ Len(after) >= Len(before)
    /\ \A p \in 1..Len(before) : p # page + 1 => after[p] = before[p]
    /\ \A p \in (Len(before) + 1)..Len(after) : p # page + 1 => after[p] = <<>>

\* C12: an updateField or deleteField performed for a field picked on one
\* page leaves the field lists of all other pages unchanged, in both
\* designers.
EditLeavesOtherPagesAlone ==
    lastEdit # <<>> =>
        OtherPagesSame(lastEdit[1].before, lastEdit[1].after, lastEdit[1].page)

\* The same for the paged designer alone, first with the page the selected
\* field was picked on, then with the page that is current at the edit.
PagedEditLeavesOtherPagesAlone ==
    impl = "paged" /\ lastEdit # <<>> =>
        OtherPagesSame(lastEdit[1].before, lastEdit[1].after, lastEdit[1].page)

PagedEditTouchesCurrentPageOnly ==
    impl = "paged" /\ lastEdit # <<>> =>
        OtherPagesSame(lastEdit[1].before, lastEdit[1].after, lastEdit[1].current)

\* C13: a generation that threw leaves its component in a visible failed
\* state: an error message is shown, the generating flag is back to false
\* and a retry is offered.  Stated for the designer's generatePreview.
PreviewFailureShown ==
    previewOutcome = "threw" /\ previewPc = "idle" =>
        /\ ~isGeneratingPreview
        /\ DesignerView.errorMessage # <<>>
        /\ DesignerView.retry

\* The same for the viewer's generateAndDisplay: a generation that ends
\* without publishing a document shows the failure panel with Try Again,
\* and a retry clears the error and runs the generation again on the
\* current template and data.
ViewerFailureShown ==
    [][pc # "idle" /\ pc' = "idle" /\ urlCount' = urlCount =>
          /\ ~isGenerating'
          /\ ViewerView'.screen = "failed"
          /\ ViewerView'.errorMessage # <<>>
          /\ ViewerView'.retry]_vars

ViewerRetryRegenerates ==
    [][error # <<>> /\ pc = "idle" /\ pc' # "idle" =>
          /\ error' = <<>>
          /\ isGenerating'
          /\ genTemplate' = template /\ genData' = data]_vars

(***************************************************************************)
(* Claims about password hashing.                                          *)
(***************************************************************************)

\* A password without lone surrogates.
WellFormedText(password) ==
    \A i \in 1..Len(password) : password[i] \notin {"uD800", "uD801"}

\* comparePassword(p, hashPassword(p)) is true.
SamePasswordVerifies ==
    pwCall # <<>> =>
        (/\ pwCall[1].hashedPassword = pwCall[1].of.hash
         /\ pwCall[1].password = pwCall[1].of.password
         => pwCall[1].outcome = Returned(TRUE))

\* comparePassword(q, hashPassword(p)) is false for q # p, for passwords
\* that are well-formed texts.
OtherPasswordRejected ==
    pwCall # <<>> =>
        (/\ pwCall[1].hashedPassword = pwCall[1].of.hash
         /\ pwCall[1].password # pwCall[1].of.password
         /\ WellFormedText(pwCall[1].password)
         /\ WellFormedText(pwCall[1].of.password)
         => pwCall[1].outcome = Returned(FALSE))

\* comparePassword(q, hashPassword(p)) is false for q # p, for all
\* passwords.
AnyOtherPasswordRejected ==
    pwCall # <<>> =>
        (/\ pwCall[1].hashedPassword = pwCall[1].of.hash
         /\ pwCall[1].password # pwCall[1].of.password
         => pwCall[1].outcome = Returned(FALSE))

\* comparePassword never throws.
ComparePasswordNeverThrows ==
    pwCall # <<>> => ~pwCall[1].outcome.threw

\* comparePassword returns false for a stored value that is no hash.
MalformedHashRejected ==
    pwCall # <<>> =>
        (~WellFormedHash(pwCall[1].hashedPassword)
         => pwCall[1].outcome = Returned(FALSE))

\* C14: password hashing round-trips: comparePassword(p, hashPassword(p)) is
\* true, comparePassword(q, hashPassword(p)) is false when q differs from p,
\* and for any malformed stored hash comparePassword returns false and never
\* throws.
PasswordRoundTrips ==
    /\ SamePasswordVerifies
    /\ AnyOtherPasswordRejected
    /\ ComparePasswordNeverThrows
    /\ MalformedHashRejected

(***************************************************************************)
(* Claims about the server.                                                *)
(***************************************************************************)

\* An admin page path: /admin or a path under /admin/.
IsAdminPage(pathname) ==
    pathname = AdminPath \/ StartsWith(pathname, AdminPath \o <<"/">>)

\* The request carries a non-empty admin-token cookie.
HasAdminToken(adminToken) == adminToken # <<>> /\ adminToken[1] # <<>>

\* C15: every request to an admin page path (/admin or any path under
\* /admin/) that carries no non-empty admin-token cookie is answered with a
\* redirect to /admin/login and is never passed through to the page.
MiddlewareProtectsAdminPages ==
    lastCall # <<>> =>
        (/\ lastCall[1].route = "middleware"
         /\ IsAdminPage(lastCall[1].req.pathname)
         /\ ~HasAdminToken(lastCall[1].req.adminToken)
         => lastCall[1].response = RedirectTo(AdminLoginPath))

\* The same for the paths under /admin/ only.
MiddlewareProtectsPathsUnderAdmin ==
    lastCall # <<>> =>
        (/\ lastCall[1].route = "middleware"
         /\ StartsWith(lastCall[1].req.pathname, AdminPath \o <<"/">>)
         /\ ~HasAdminToken(lastCall[1].req.adminToken)
         => lastCall[1].response = RedirectTo(AdminLoginPath))

\* The instant a session row expires at.
ExpiryInstant(row) ==
    CHOOSE tick \in 0..SessionExpiry(MaxTicks) : ToISOString(tick) = row.expires_at

\* The sessions a request's cookie verifies to that are unexpired at the
\* time of the request.
UnexpiredSessions(call) ==
    IF call.req.cookie = <<>> THEN {}
    ELSE IF VerifyCookie(call.req.cookie[1]) = <<>> THEN {}
    ELSE {row \in call.before.sessions :
            /\ row.id = VerifyCookie(call.req.cookie[1])[1]
            /\ ExpiryInstant(row) > call.at}

AdminFormRoutes ==
    {"GET forms", "POST forms", "GET form", "PUT form", "DELETE form"}

\* C16: the operations under /api/admin/forms read or change form data only
\* when the request's session cookie verifies to an unexpired session with
\* user_type 'admin'; with no valid session the response is 401, with a
\* valid non-admin session 403, and in both cases the database is unchanged.
AdminFormsGatedByRole ==
    lastCall # <<>> /\ lastCall[1].route \in AdminFormRoutes =>
        LET call == lastCall[1]
            valid == UnexpiredSessions(call)
        IN  /\ (call.response.body # <<>> \/ Tables # call.before)
                => \E row \in valid : row.user_type = "admin"
            /\ valid = {}
                => call.response.status = 401 /\ Tables = call.before
            /\ (valid # {} /\ \A row \in valid : row.user_type # "admin")
                => call.response.status = 403 /\ Tables = call.before

\* The same, with the sessions that getSession takes for unexpired.
AdminFormsGatedBySession ==
    lastCall # <<>> /\ lastCall[1].route \in AdminFormRoutes =>
        LET call == lastCall[1]
            auth == VerifySession(call.req.cookie, call.before.sessions, call.at)
        IN  /\ (call.response.body # <<>> \/ Tables # call.before)
                => auth # <<>> /\ auth[1].userType = "admin"
            /\ auth = <<>>
                => call.response.status = 401 /\ Tables = call.before
            /\ (auth # <<>> /\ auth[1].userType # "admin")
                => call.response.status = 403 /\ Tables = call.before

\* The number a request value spells.
NumberOf(value) == IF value.t = "number" THEN value.n ELSE DigitsToNat(value.s)

\* A submission request the claim accepts: formId, data and submittedAt are
\* present, formId is a valid number, data is an array and the form exists.
SubmissionAcceptable(call) ==
    /\ ~Absent(call.req.body.formId)
    /\ ~Absent(call.req.body.data)
    /\ ~Absent(call.req.body.submittedAt)
    /\ IsValidNumber(call.req.body.formId)
    /\ call.req.body.data.t = "array"
    /\ \E f \in call.before.forms : f.id = NumberOf(call.req.body.formId)

\* C17: POST /api/form-submissions creates exactly one submission and
\* returns 201 if and only if formId, data and submittedAt are all present,
\* formId is a valid number, data is an array and the form exists; otherwise
\* it returns 400 or 404 and creates no submission.
SubmissionCreatedIffValid ==
    lastCall # <<>> /\ lastCall[1].route = "POST form-submissions" =>
        LET call == lastCall[1]
        IN  IF SubmissionAcceptable(call)
            THEN /\ call.response.status = 201
                 /\ call.before.submissions \subseteq submissions
                 /\ Cardinality(submissions \ call.before.submissions) = 1
            ELSE /\ call.response.status \in {400, 404}
                 /\ submissions = call.before.submissions

\* The part of C17 that holds: a request the claim does not accept is
\* answered 400 or 404 unless its formId only begins with a number, and no
\* request creates more than is claimed.
SubmissionRejections ==
    lastCall # <<>> /\ lastCall[1].route = "POST form-submissions" =>
        LET call == lastCall[1]
        IN  /\ submissions = call.before.submissions
            /\ (~SubmissionAcceptable(call) /\ call.response.status \notin {400, 404})
                => /\ call.req.body.formId.t = "string"
                   /\ ~IsNumeral(call.req.body.formId.s)
                   /\ ParseInt(call.req.body.formId) # <<>>

\* C18: DELETE /api/admin/forms/[id] on a form that has at least one
\* submission returns 409 and leaves the form and its submissions unchanged;
\* on an existing form with no submissions it removes exactly that form and
\* returns 200; on a non-existent id it returns 404 and changes nothing.
\* The request is an admin's, the id a number.
DeleteFormCases ==
    lastCall # <<>> /\ lastCall[1].route = "DELETE form" =>
        LET call == lastCall[1]
            id == DigitsToNat(call.req.id)
            form == {f \in call.before.forms : f.id = id}
            held == {r \in call.before.submissions : r.form_id = id}
        IN  (/\ IsNumeral(call.req.id)
             /\ call.response.status \notin {401, 403})
            => IF form = {}
               THEN call.response.status = 404 /\ Tables = call.before
               ELSE IF held # {}
               THEN call.response.status = 409 /\ Tables = call.before
               ELSE /\ call.response.status = 200
                    /\ forms = call.before.forms \ form
                    /\ submissions = call.before.submissions

\* The part of C18 that holds: a non-existent id is answered 404, and no
\* DELETE changes a table.
DeleteUnknownForm ==
    lastCall # <<>> /\ lastCall[1].route = "DELETE form" =>
        LET call == lastCall[1]
        IN  /\ Tables = call.before
            /\ (/\ IsNumeral(call.req.id)
                 /\ call.response.status \notin {401, 403}
                 /\ \A f \in call.before.forms : f.id # DigitsToNat(call.req.id))
                => call.response.status = 404

\* The text has at least n characters.
HasLength(value, n) == value.t = "string" /\ Len(value.s) >= n

\* A registration the claim accepts.
RegistrationAcceptable(call) ==
    /\ HasLength(call.req.body.username, 3)
    /\ HasLength(call.req.body.password, 6)
    /\ \A u \in call.before.users : u.username # call.req.body.username.s

UsernamesUnique ==
    \A u1 \in users, u2 \in users : u1.username = u2.username => u1 = u2

\* C19: POST /api/register creates a user and a 'user' session (and sets the
\* session cookie) only when the username has at least 3 characters, the
\* password at least 6 characters and the username is not already taken;
\* otherwise it answers 400 or 409 and creates neither a user nor a session.
\* No two users share a username.
RegisterOnlyWhenValid ==
    /\ UsernamesUnique
    /\ lastCall # <<>> /\ lastCall[1].route = "POST register" =>
            LET call == lastCall[1]
            IN  IF RegistrationAcceptable(call)
                THEN TRUE
                ELSE /\ call.response.status \in {400, 409}
                     /\ call.response.setCookie = <<>>
                     /\ users = call.before.users
                     /\ sessions = call.before.sessions

\* The part of C19 that holds: the same for usernames and passwords that
\* are texts, and an accepted registration creates one user, one 'user'
\* session for it and the cookie of that session.
RegisterTextsOnlyWhenValid ==
    /\ UsernamesUnique
    /\ lastCall # <<>> /\ lastCall[1].route = "POST register" =>
            LET call == lastCall[1]
                newUsers == users \ call.before.users
                newSessions == sessions \ call.before.sessions
            IN  IF RegistrationAcceptable(call)
                THEN /\ call.response.status = 200
                     /\ Cardinality(newUsers) = 1
                     /\ Cardinality(newSessions) = 1
                     /\ \A u \in newUsers, row \in newSessions :
                           /\ u.username = call.req.body.username.s
                           /\ row.user_id = u.id
                           /\ row.user_type = "user"
                           /\ call.response.setCookie = <<SignCookie(row.id)>>
                ELSE call.req.body.username.t # "number"
                     => /\ call.response.status \in {400, 409}
                        /\ call.response.setCookie = <<>>
                        /\ users = call.before.users
                        /\ sessions = call.before.sessions

\* The user row a login names, and whether the password is the one its
\* hash was made from.
NamedUsers(call) ==
    IF Absent(call.req.body.username) THEN {}
    ELSE {u \in call.before.users : u.username = String(call.req.body.username)}

PasswordVerifies(call, u) ==
    /\ call.req.body.password.t = "string"
    /\ \E salt \in BcryptSalts :
          u.password_hash = BcryptHashSync(call.req.body.password.s, salt)

LoggedOutSessions == {id \in 1..uuids : \A row \in sessions : row.id # id}

\* The request was authenticated: verifySession returned an AuthContext, so
\* requireAdmin did not answer 401.
Authenticated(call) == call.response.status # 401

\* C21: verifySession returns an AuthContext for a session cookie if and
\* only if the cookie's signature verifies and the sessions table holds a row
\* for that token whose expires_at is strictly later than the current time;
\* once the session has been deleted by logout or its expiry instant has
\* passed, the same cookie is never authenticated again.
SessionValidityWindow ==
    lastCall # <<>> /\ lastCall[1].route \in AdminFormRoutes =>
        (Authenticated(lastCall[1]) <=> UnexpiredSessions(lastCall[1]) # {})

\* The part of C21 about logout: the cookie of a session that logout
\* deleted is not authenticated.
LoggedOutCookieRejected ==
    lastCall # <<>> /\ lastCall[1].route \in AdminFormRoutes =>
        LET call == lastCall[1]
        IN  (/\ call.req.cookie # <<>>
             /\ VerifyCookie(call.req.cookie[1]) # <<>>
             /\ VerifyCookie(call.req.cookie[1])[1] \in LoggedOutSessions)
            => ~Authenticated(call)

\* The part of C21 about the signature and the row: a cookie is
\* authenticated only if its signature verifies and the table holds a row for
\* its token, and a session is not authenticated on any day after the day it
\* expires on.
SessionNeedsSignedRow ==
    lastCall # <<>> /\ lastCall[1].route \in AdminFormRoutes =>
        LET call == lastCall[1]
        IN  Authenticated(call)
            => /\ call.req.cookie # <<>>
               /\ VerifyCookie(call.req.cookie[1]) # <<>>
               /\ \E row \in call.before.sessions :
                     /\ row.id = VerifyCookie(call.req.cookie[1])[1]
                     /\ DayOf(ExpiryInstant(row)) >= DayOf(call.at)

\* The part of C21 about the lifetime: login and registration set
\* expires_at to 7 days after the request.
SessionLastsSevenDays ==
    lastCall # <<>> /\ lastCall[1].route \in {"POST login", "POST register"} =>
        \A row \in sessions \ lastCall[1].before.sessions :
            ExpiryInstant(row) = lastCall[1].at + SessionDays * TicksPerDay

(***************************************************************************)
(* POST /api/admin/login.                                                  *)
(***************************************************************************)
\* The submitted value is the password whose hash the admin row stores.
IsAdminPassword(value) ==
    value.t = "string" /\ BcryptCompareSync(value.s, AdminPasswordHash)

\* The call issued an admin session and its admin-token cookie.
AdminSessionIssued(call) ==
    /\ call.response.status = 200
    /\ call.response.setCookie # <<>>
    /\ sessions # call.before.sessions

\* C22: with the admin password stored as a hash, POST /api/admin/login
\* issues an admin session and the admin-token cookie for the password whose
\* hash is stored and for no other submitted string, and an attempt answered
\* with 400 or 401 creates no session.
AdminLoginVerifiesPassword ==
    lastCall # <<>> /\ lastCall[1].route = "POST admin login" =>
        /\ AdminSessionIssued(lastCall[1])
              <=> IsAdminPassword(lastCall[1].req.body.password)
        /\ lastCall[1].response.status \in {400, 401}
              => sessions = lastCall[1].before.sessions

\* The part of C22 that the handler keeps: no attempt that is turned away
\* leaves a session behind, and a string other than the password is issued
\* none.
AdminLoginFailureCreatesNoSession ==
    lastCall # <<>> /\ lastCall[1].route = "POST admin login" =>
        /\ lastCall[1].response.status # 200
              => sessions = lastCall[1].before.sessions
        /\ ~IsAdminPassword(lastCall[1].req.body.password)
              => ~AdminSessionIssued(lastCall[1])

\* What the handler does with the two texts that pass for a password: the
\* password is answered 401, compared as text with the stored hash, and the
\* text of the hash is answered 500, when its session is not inserted.
AdminLoginAnswers ==
    lastCall # <<>> /\ lastCall[1].route = "POST admin login" =>
        /\ lastCall[1].req.body.password = StrV(Demo123)
              => lastCall[1].response.status = 401
        /\ lastCall[1].req.body.password = StrV(AdminPasswordHash)
              => lastCall[1].response.status = 500

(***************************************************************************)
(* Overlapping generations of the viewer.                                  *)
(***************************************************************************)
\* Every generation has settled, and none was rejected since the last one
\* started: the document of the most recent template and data was made.
GenerationsSettled ==
    /\ generations > 0
    /\ inFlight = {}
    /\ error = <<>>

\* C23: if template or data change, or Refresh is pressed, while a generation
\* is in flight, then once all generations have completed the displayed
\* pdfUrl and generatedPdfBytes are the ones produced from the most recent
\* template and data, whatever order the generations finish in.
LatestPropsDisplayed ==
    GenerationsSettled =>
        /\ generatedPdfBytes = <<Document(template, data)>>
        /\ pdfUrl # <<>>
        /\ blobStore[pdfUrl[1]].doc = Document(template, data)

\* What holds of the display whatever the order: the url and the bytes are of
\* one generation, which some template and data the viewer was given produced.
DisplayedPairOfOneGeneration ==
    pdfUrl # <<>> =>
        /\ generatedPdfBytes = <<blobStore[pdfUrl[1]].doc>>
        /\ \E inp \in OverlapInputs :
              generatedPdfBytes[1] = Document(inp.template, inp.data)

==============================================================================
